---- MODULE Spec2Model ----
(***************************************************************************)
(* The coefficient buffer controller for decompression (jdcoefct.c, the    *)
(* second half of src/trunk/turbojpeg-jni.c), built without the OpenCL     *)
(* path (WITH_OPENCL_DECODING_SUPPORTED undefined) and with                *)
(* BLOCK_SMOOTHING_SUPPORTED defined.  D_MULTISCAN_FILES_SUPPORTED is a    *)
(* field of cinfo: the build without it differs in                         *)
(* jinit_d_coef_controller only.                                           *)
(*                                                                         *)
(* The C objects are records: cinfo (jpeg_decompress_struct, with the      *)
(* input controller's flags), coef (my_coef_controller).  Every handler is *)
(* a state transformer on the record s == [cinfo, coef, whole_image,       *)
(* output_buf, ...]; one action per entry point applies it.                *)
(***************************************************************************)
EXTENDS Integers, Sequences, FiniteSets, TLC

VARIABLES
  cinfo,        \* jpeg_decompress_struct fields the controller reads/writes
  coef,         \* my_coef_controller
  whole_image,  \* the virtual block arrays, [ci][row][col] -> block
  output_buf,   \* the caller's sample buffer for one iMCU row,
                \* [ci][block row in the iMCU row][col] -> IDCT result or NoBlock
  stream,       \* the scans of the file being read (the data source)
  decode,       \* the parameters of the decode: geometry, file kind, options
  hist,         \* history of the last call: return code, decode_mcu and
                \* inverse_DCT invocations, store accesses
  jni           \* the Java side of the JNI wrapper (first half of the file):
                \* the object's fields, the native instances, the last call

vars == <<cinfo, coef, whole_image, output_buf, stream, decode, hist, jni>>

----------------------------------------------------------------------------
(* Bounds of the model *)

MaxBlocksHigh == 3    \* image height, in 8-line block rows at full resolution
MaxBlocksWide == 2    \* image width, in 8-sample block columns
MaxAvail == 1         \* largest finite number of MCUs the data source holds
                      \* when an entry point is called

(* Program constants *)
SAVED_COEFS == 6
Q01_POS == 1
Q10_POS == 8
Q20_POS == 16
Q11_POS == 9
Q02_POS == 2

NoSuspension == MaxAvail + 1   \* "enough input for the whole call"
Avail == 0..NoSuspension

----------------------------------------------------------------------------
(* Blocks.  A JBLOCK is tracked at the DC position, the five positions the *)
(* smoothing code estimates, and one further AC position standing for the  *)
(* other 58.                                                               *)

OTHER_POS == Q02_POS + 1
Pos == {0, Q01_POS, Q10_POS, Q20_POS, Q11_POS, Q02_POS, OTHER_POS}
ZeroBlock == [k \in Pos |-> 0]
NoBlock == <<>>

\* natural-order position of zigzag index z, for the tracked positions
NaturalOrder(z) ==
  CASE z = 0 -> 0
    [] z = 1 -> Q01_POS
    [] z = 2 -> Q10_POS
    [] z = 3 -> Q20_POS
    [] z = 4 -> Q11_POS
    [] z = 5 -> Q02_POS
    [] OTHER -> OTHER_POS
ZigZagOf(k) == CHOOSE z \in 0..SAVED_COEFS : NaturalOrder(z) = k

CeilDiv(a, b) == (a + b - 1) \div b
jround_up(a, b) == CeilDiv(a, b) * b

----------------------------------------------------------------------------
(* Image geometry (jdinput.c initial_setup): per component the sampling    *)
(* factors and the block-grid dimensions.                                  *)

Sampling == {<<1, 1>>, <<1, 2>>, <<2, 2>>}    \* <<h_samp, v_samp>> of component 0

\* a table without a zero, and the tables with a zero at one of the
\* positions block smoothing divides by or multiplies with
ZeroAt(p) == [k \in Pos |-> IF k = p THEN 0 ELSE IF k = 0 THEN 3 ELSE 2]
QuantTables ==
  { [k \in Pos |-> IF k = 0 THEN 16 ELSE 1] }
    \cup { ZeroAt(p) : p \in Pos \ {OTHER_POS} }

NoTable == <<>>

initial_setup(n, samp0, Wb, Hb, needed1) ==
  LET hs(ci) == IF ci = 0 THEN samp0[1] ELSE 1
      vs(ci) == IF ci = 0 THEN samp0[2] ELSE 1
      maxh == samp0[1]
      maxv == samp0[2]
  IN [ci \in 0..(n - 1) |->
        [ component_index  |-> ci,
          h_samp_factor    |-> hs(ci),
          v_samp_factor    |-> vs(ci),
          width_in_blocks  |-> CeilDiv(Wb * hs(ci), maxh),
          height_in_blocks |-> CeilDiv(Hb * vs(ci), maxv),
          component_needed |-> IF ci = 0 THEN TRUE ELSE needed1,
          quant_table      |-> NoTable ] ]

CompSeq(n) == [i \in 1..n |-> i - 1]

(* The scans of a file: which components, spectral band Ss..Se (zigzag),   *)
(* successive-approximation bits Ah, Al.                                   *)
Scan(comps, Ss, Se, Ah, Al) ==
  [comps |-> comps, Ss |-> Ss, Se |-> Se, Ah |-> Ah, Al |-> Al]

BaselineStream(n) == << Scan(CompSeq(n), 0, 63, 0, 0) >>
MultiscanStream(n) == [i \in 1..n |-> Scan(<<i - 1>>, 0, 63, 0, 0)]
ProgressiveStream(n) ==
  << Scan(CompSeq(n), 0, 0, 0, 1),
     Scan(<<0>>, 1, 3, 0, 1),
     Scan(<<0>>, 1, 3, 1, 0) >>

(* The contribution of scan sn to coefficient k of block (ci,row,col): what *)
(* the entropy decoder adds to the block when it decodes it.               *)
Delta(sn, ci, row, col, k) ==
  LET sc == stream[sn]
      z == ZigZagOf(k)
  IN IF z < sc.Ss \/ z > sc.Se THEN 0
     ELSE IF k = 0 THEN IF sc.Ah = 0 THEN 2 * ((ci + row + 2 * col) % 3) ELSE (row + col) % 2
     ELSE ((sn + ci + 2 * row + col + z) % 3) - 1

----------------------------------------------------------------------------
(* Scan setup (jdinput.c per_scan_setup and the SOS marker): the per-scan  *)
(* MCU geometry of the components of the scan.                             *)

Rem(a, b) == IF a % b = 0 THEN b ELSE a % b

per_scan_setup(ci0, sc) ==
  LET n == Len(sc.comps)
      maxh == ci0.comp_info[0].h_samp_factor
      maxv == ci0.comp_info[0].v_samp_factor
      one(c) == c @@
                [ MCU_width |-> 1, MCU_height |-> 1, MCU_blocks |-> 1,
                  last_col_width |-> 1,
                  last_row_height |-> Rem(c.height_in_blocks, c.v_samp_factor) ]
      many(c) == c @@
                [ MCU_width |-> c.h_samp_factor, MCU_height |-> c.v_samp_factor,
                  MCU_blocks |-> c.h_samp_factor * c.v_samp_factor,
                  last_col_width |-> Rem(c.width_in_blocks, c.h_samp_factor),
                  last_row_height |-> Rem(c.height_in_blocks, c.v_samp_factor) ]
      inscan(ci) == \E i \in 1..n : sc.comps[i] = ci
      \* latch_quant_tables: a component's table is saved at its first scan
      latched == [ci \in DOMAIN ci0.comp_info |->
                    IF inscan(ci) /\ ci0.comp_info[ci].quant_table = NoTable
                    THEN [ ci0.comp_info[ci] EXCEPT !.quant_table = ci0.quant_tbl ]
                    ELSE ci0.comp_info[ci]]
      cur == [i \in 0..(n - 1) |->
                IF n = 1 THEN one(latched[sc.comps[i + 1]])
                ELSE many(latched[sc.comps[i + 1]])]
  IN [ ci0 EXCEPT
         !.comp_info = latched,
         !.blocks_in_MCU = IF n = 1 THEN 1
                           ELSE LET RECURSIVE sum(_)
                                    sum(i) == IF i >= n THEN 0
                                              ELSE cur[i].MCU_blocks + sum(i + 1)
                                IN sum(0),
         !.comps_in_scan = n,
         !.cur_comp_info = cur,
         !.MCUs_per_row = IF n = 1 THEN cur[0].width_in_blocks
                          ELSE CeilDiv(ci0.image_width_blocks, maxh),
         !.Ss = sc.Ss ]

(* Entropy decoder start_pass (jdphuff.c): a progressive scan records its  *)
(* Al in coef_bits for the band it codes; the decoder restarts its count   *)
(* of MCUs read from the scan.                                             *)
entropy_start_pass(ci0, sc) ==
  LET inscan(ci) == \E i \in 1..Len(sc.comps) : sc.comps[i] = ci
  IN [ ci0 EXCEPT
         !.entropy.mcus_decoded = 0,
         !.coef_bits =
            IF ~ci0.progressive_mode THEN ci0.coef_bits
            ELSE [ci \in DOMAIN ci0.coef_bits |->
                    [z \in 0..(SAVED_COEFS - 1) |->
                       IF inscan(ci) /\ z >= sc.Ss /\ z <= sc.Se
                       THEN sc.Al ELSE ci0.coef_bits[ci][z]]] ]

(* The blocks of one MCU in the order the entropy decoder fills them:      *)
(* component of the scan, then block row, then block column.               *)
RECURSIVE BlockList(_, _)
BlockList(ci0, i) ==
  IF i >= ci0.comps_in_scan THEN <<>>
  ELSE LET c == ci0.cur_comp_info[i]
       IN [j \in 1..(c.MCU_width * c.MCU_height) |->
             [ i |-> i, ci |-> c.component_index,
               yindex |-> (j - 1) \div c.MCU_width,
               xindex |-> (j - 1) % c.MCU_width ]]
          \o BlockList(ci0, i + 1)

(* Where in the image the blocks of the m-th MCU of the current scan lie:  *)
(* the file holds the MCUs in raster order.                                *)
StreamMCU(ci0, m) ==
  LET bl == BlockList(ci0, 0)
      mrow == m \div ci0.MCUs_per_row
      mcol == m % ci0.MCUs_per_row
  IN [b \in 1..Len(bl) |->
        LET c == ci0.cur_comp_info[bl[b].i]
        IN [ ci |-> bl[b].ci,
             row |-> mrow * c.MCU_height + bl[b].yindex,
             col |-> mcol * c.MCU_width + bl[b].xindex ]]

AddDelta(blk, sn, p) ==
  [k \in Pos |-> blk[k] + Delta(sn, p.ci, p.row, p.col, k)]

----------------------------------------------------------------------------
(* Block pointers.  coef->MCU_buffer[] holds pointers: into the one-MCU    *)
(* scratch area (single pass) or into the virtual arrays (multi pass).     *)

ScratchPtr(i) == [mem |-> "scratch", ci |-> 0, row |-> 0, col |-> i]
StorePtr(ci, row, col) == [mem |-> "store", ci |-> ci, row |-> row, col |-> col]

(* entropy->decode_mcu, the successful case: the decoder reads the next    *)
(* MCU of the scan from the file and adds its coefficients to the blocks   *)
(* MCU_buffer[0 .. blocks_in_MCU-1] points at.                             *)
decode_mcu(s) ==
  LET m == s.cinfo.entropy.mcus_decoded
      data == StreamMCU(s.cinfo, m)
      sn == s.cinfo.input_scan_number
      ptrs == s.coef.MCU_buffer
      Hit(p) == {b \in 1..Len(data) : ptrs[b] = p}
      Upd(p, blk) == IF Hit(p) = {} THEN blk
                     ELSE AddDelta(blk, sn, data[CHOOSE b \in Hit(p) : TRUE])
  IN [ s EXCEPT
         !.cinfo.entropy.mcus_decoded = m + 1,
         !.coef.scratch = [i \in DOMAIN s.coef.scratch |->
                             Upd(ScratchPtr(i), s.coef.scratch[i])],
         !.whole_image = [ci \in DOMAIN s.whole_image |->
                            [row \in DOMAIN s.whole_image[ci] |->
                               [col \in DOMAIN s.whole_image[ci][row] |->
                                  Upd(StorePtr(ci, row, col),
                                      s.whole_image[ci][row][col])]]] ]

(* entropy->decode_mcu, the failing case: the data ran out inside the MCU. *)
(* What the decoder had written into the one-MCU scratch area stays there  *)
(* (here: one unit on every DC); blocks of the virtual arrays end up as    *)
(* they were, since the retry decodes the same MCU over them.              *)
decode_mcu_fail(s) ==
  [ s EXCEPT !.coef.scratch =
      [i \in DOMAIN @ |->
         IF \E b \in 1..s.cinfo.blocks_in_MCU : s.coef.MCU_buffer[b] = ScratchPtr(i)
         THEN [ @[i] EXCEPT ![0] = @ + 1 ] ELSE @[i]] ]

(* One decode_mcu attempt at cursor (yoffset, MCU_col_num): it fails when  *)
(* the data source is empty.  The attempt is added to the call history.    *)
Attempt(s, yoffset, MCU_col_num, ok) ==
  [ sn |-> s.cinfo.input_scan_number, iMCU_row |-> s.cinfo.input_iMCU_row,
    yoffset |-> yoffset, col |-> MCU_col_num,
    m |-> s.cinfo.entropy.mcus_decoded, ok |-> ok ]

LogAttempt(s, yoffset, MCU_col_num, ok) ==
  LET a == Attempt(s, yoffset, MCU_col_num, ok)
  IN [ s EXCEPT !.hist.decodes = Append(@, a),
                !.hist.decoded = IF ok THEN Append(@, a) ELSE @ ]

Take(s) == [ s EXCEPT !.hist.avail = IF @ = NoSuspension THEN @ ELSE @ - 1 ]

----------------------------------------------------------------------------
\* variant: the bottom of the image is not clipped
start_iMCU_row_noclip(s) ==
  LET rows == IF s.cinfo.comps_in_scan > 1 THEN 1
              ELSE s.cinfo.cur_comp_info[0].v_samp_factor
  IN [ s EXCEPT !.coef.MCU_rows_per_iMCU_row = rows,
                !.coef.MCU_ctr = 0,
                !.coef.MCU_vert_offset = 0 ]

\* variant: the MCU row offset of the row-group before is kept
start_iMCU_row_keep_offset(s) ==
  LET rows == IF s.cinfo.comps_in_scan > 1 THEN 1
              ELSE IF s.cinfo.input_iMCU_row < s.cinfo.total_iMCU_rows - 1
                   THEN s.cinfo.cur_comp_info[0].v_samp_factor
                   ELSE s.cinfo.cur_comp_info[0].last_row_height
  IN [ s EXCEPT !.coef.MCU_rows_per_iMCU_row = rows,
                !.coef.MCU_ctr = 0 ]

(* start_iMCU_row: reset within-iMCU-row counters for a new row.           *)
start_iMCU_row(s) ==
  LET rows == IF s.cinfo.comps_in_scan > 1 THEN 1
              ELSE IF s.cinfo.input_iMCU_row < s.cinfo.total_iMCU_rows - 1
                   THEN s.cinfo.cur_comp_info[0].v_samp_factor
                   ELSE s.cinfo.cur_comp_info[0].last_row_height
  IN [ s EXCEPT !.coef.MCU_rows_per_iMCU_row = rows,
                !.coef.MCU_ctr = 0,
                !.coef.MCU_vert_offset = 0 ]

(* start_input_pass: initialize for an input processing pass.              *)
\* variant: the row-group index of the scan before is kept
start_input_pass_keep(s) == start_iMCU_row(s)

start_input_pass(s) ==
  start_iMCU_row([ s EXCEPT !.cinfo.input_iMCU_row = 0 ])

(* inputctl->finish_input_pass (jdinput.c): back to reading markers.       *)
finish_input_pass(s) ==
  [ s EXCEPT !.cinfo.inputctl.in_scan = FALSE,
             !.hist.finish_input_pass = @ + 1 ]

(* mem->access_virt_barray: the call is recorded, the rows are addressed   *)
(* directly in whole_image.                                                *)
access_virt_barray(s, ci, start_row, num_rows, writable) ==
  [ s EXCEPT !.hist.access = Append(@,
      [ ci |-> ci, start_row |-> start_row, num_rows |-> num_rows,
        writable |-> writable,
        input_scan_number |-> s.cinfo.input_scan_number,
        input_iMCU_row |-> s.cinfo.input_iMCU_row,
        output_scan_number |-> s.cinfo.output_scan_number,
        output_iMCU_row |-> s.cinfo.output_iMCU_row,
        Ss |-> s.cinfo.Ss,
        eoi_reached |-> s.cinfo.inputctl.eoi_reached ]) ]

----------------------------------------------------------------------------
(* consume_data: read one iMCU row into the full-image coefficient buffer. *)

RECURSIVE consume_align(_, _)
consume_align(s, i) ==
  IF i >= s.cinfo.comps_in_scan THEN s
  ELSE LET compptr == s.cinfo.cur_comp_info[i]
       IN consume_align(
            access_virt_barray(s, compptr.component_index,
                               s.cinfo.input_iMCU_row * compptr.v_samp_factor,
                               compptr.v_samp_factor, TRUE),
            i + 1)

\* variant: the pointers do not move down with the MCU row
consume_pointers_no_yoffset(s, yoffset, MCU_col_num) ==
  LET bl == BlockList(s.cinfo, 0)
  IN [b \in 1..Len(bl) |->
        LET compptr == s.cinfo.cur_comp_info[bl[b].i]
            start_col == MCU_col_num * compptr.MCU_width
        IN StorePtr(compptr.component_index,
                    s.cinfo.input_iMCU_row * compptr.v_samp_factor + bl[b].yindex,
                    start_col + bl[b].xindex)]

\* the list of pointers to the DCT blocks belonging to the MCU
consume_pointers(s, yoffset, MCU_col_num) ==
  LET bl == BlockList(s.cinfo, 0)
  IN [b \in 1..Len(bl) |->
        LET compptr == s.cinfo.cur_comp_info[bl[b].i]
            start_col == MCU_col_num * compptr.MCU_width
        IN StorePtr(compptr.component_index,
                    s.cinfo.input_iMCU_row * compptr.v_samp_factor
                      + bl[b].yindex + yoffset,
                    start_col + bl[b].xindex)]

\* variant: the suspension does not save the column reached
consume_suspend_no_ctr(s, yoffset, MCU_col_num) ==
  [ s EXCEPT !.coef.MCU_vert_offset = yoffset,
             !.hist.ret = "JPEG_SUSPENDED" ]

consume_suspend(s, yoffset, MCU_col_num) ==
  [ s EXCEPT !.coef.MCU_vert_offset = yoffset,
             !.coef.MCU_ctr = MCU_col_num,
             !.hist.ret = "JPEG_SUSPENDED" ]

\* variant: MCU_ctr is not set back to 0 at the end of an MCU row
RECURSIVE consume_loop_no_reset(_, _, _)
consume_loop_no_reset(s, yoffset, MCU_col_num) ==
  IF yoffset >= s.coef.MCU_rows_per_iMCU_row THEN s
  ELSE IF MCU_col_num >= s.cinfo.MCUs_per_row
  THEN consume_loop_no_reset(s, yoffset + 1, s.coef.MCU_ctr)
  ELSE LET s1 == [ s EXCEPT !.coef.MCU_buffer =
                               consume_pointers(s, yoffset, MCU_col_num) ]
       IN IF s1.hist.avail = 0
          THEN consume_suspend(
                 decode_mcu_fail(LogAttempt(s1, yoffset, MCU_col_num, FALSE)),
                 yoffset, MCU_col_num)
          ELSE consume_loop_no_reset(
                 Take(decode_mcu(LogAttempt(s1, yoffset, MCU_col_num, TRUE))),
                 yoffset, MCU_col_num + 1)

RECURSIVE consume_loop(_, _, _)
consume_loop(s, yoffset, MCU_col_num) ==
  IF yoffset >= s.coef.MCU_rows_per_iMCU_row THEN s
  ELSE IF MCU_col_num >= s.cinfo.MCUs_per_row
  THEN \* completed an MCU row, but perhaps not an iMCU row
       LET s1 == [ s EXCEPT !.coef.MCU_ctr = 0 ]
       IN consume_loop(s1, yoffset + 1, s1.coef.MCU_ctr)
  ELSE LET s1 == [ s EXCEPT !.coef.MCU_buffer =
                               consume_pointers(s, yoffset, MCU_col_num) ]
       IN IF s1.hist.avail = 0
          THEN consume_suspend(
                 decode_mcu_fail(LogAttempt(s1, yoffset, MCU_col_num, FALSE)),
                 yoffset, MCU_col_num)
          ELSE consume_loop(
                 Take(decode_mcu(LogAttempt(s1, yoffset, MCU_col_num, TRUE))),
                 yoffset, MCU_col_num + 1)

\* variant: the end of the scan is not signalled to the input controller
consume_finish_no_signal(s) ==
  LET s1 == [ s EXCEPT !.cinfo.input_iMCU_row = @ + 1 ]
  IN IF s1.cinfo.input_iMCU_row < s1.cinfo.total_iMCU_rows
     THEN [ start_iMCU_row(s1) EXCEPT !.hist.ret = "JPEG_ROW_COMPLETED" ]
     ELSE [ s1 EXCEPT !.hist.ret = "JPEG_SCAN_COMPLETED" ]

\* variant: the row-group is counted as output too, as the single pass does
consume_finish_output(s) ==
  LET s1 == [ s EXCEPT !.cinfo.output_iMCU_row = @ + 1,
                       !.cinfo.input_iMCU_row = @ + 1 ]
  IN IF s1.cinfo.input_iMCU_row < s1.cinfo.total_iMCU_rows
     THEN [ start_iMCU_row(s1) EXCEPT !.hist.ret = "JPEG_ROW_COMPLETED" ]
     ELSE [ finish_input_pass(s1) EXCEPT !.hist.ret = "JPEG_SCAN_COMPLETED" ]

consume_finish(s) ==
  LET s1 == [ s EXCEPT !.cinfo.input_iMCU_row = @ + 1 ]
  IN IF s1.cinfo.input_iMCU_row < s1.cinfo.total_iMCU_rows
     THEN [ start_iMCU_row(s1) EXCEPT !.hist.ret = "JPEG_ROW_COMPLETED" ]
     ELSE [ finish_input_pass(s1) EXCEPT !.hist.ret = "JPEG_SCAN_COMPLETED" ]

consume_data(s) ==
  LET s1 == consume_align([ s EXCEPT !.hist.ret = "" ], 0)
      s2 == consume_loop(s1, s1.coef.MCU_vert_offset, s1.coef.MCU_ctr)
  IN IF s2.hist.ret = "JPEG_SUSPENDED" THEN s2 ELSE consume_finish(s2)

\* variant: the dummy consumer reports a finished row-group and moves the
\* input cursor
dummy_consume_data_advance(s) ==
  [ s EXCEPT !.cinfo.input_iMCU_row = @ + 1, !.hist.ret = "JPEG_ROW_COMPLETED" ]

(* dummy_consume_data: the consume-input routine of single-pass operation. *)
dummy_consume_data(s) == [ s EXCEPT !.hist.ret = "JPEG_SUSPENDED" ]

----------------------------------------------------------------------------
(* The input controller (jdinput.c): consume_input is consume_markers      *)
(* between scans and coef->consume_data inside a scan.  A marker is one    *)
(* unit of input.                                                          *)

consume_markers(s) ==
  IF s.cinfo.inputctl.eoi_reached THEN [ s EXCEPT !.hist.ret = "JPEG_REACHED_EOI" ]
  ELSE IF s.hist.avail = 0 THEN [ s EXCEPT !.hist.ret = "JPEG_SUSPENDED" ]
  ELSE IF s.cinfo.input_scan_number < Len(stream)
  THEN \* SOS: a new scan starts
       LET sn == s.cinfo.input_scan_number + 1
           c1 == entropy_start_pass(
                   per_scan_setup([ s.cinfo EXCEPT !.input_scan_number = sn,
                                                   !.inputctl.in_scan = TRUE ],
                                  stream[sn]),
                   stream[sn])
       IN [ start_input_pass(Take([ s EXCEPT !.cinfo = c1 ]))
              EXCEPT !.hist.ret = "JPEG_REACHED_SOS" ]
  ELSE \* EOI
       [ Take(s) EXCEPT
           !.cinfo.inputctl.eoi_reached = TRUE,
           !.cinfo.output_scan_number =
              IF @ > s.cinfo.input_scan_number THEN s.cinfo.input_scan_number ELSE @,
           !.hist.ret = "JPEG_REACHED_EOI" ]

\* the return code of a consume_input call is added to the call history
LogConsumed(h) == [ h EXCEPT !.consumed = Append(@, h.ret) ]

consume_input(s) ==
  [ (IF ~s.cinfo.inputctl.in_scan THEN consume_markers(s)
     ELSE IF s.coef.consume_data = "consume_data" THEN consume_data(s)
     ELSE dummy_consume_data(s))
    EXCEPT !.hist = LogConsumed(@) ]

----------------------------------------------------------------------------
(* The inverse DCT (jidct*.c): dequantizes the block and writes the sample *)
(* block at (out_row, col) of the component's output buffer.  Each         *)
(* invocation is recorded with the coefficients it was handed.             *)

IDCT(compptr, blk) ==
  IF compptr.quant_table = NoTable THEN ZeroBlock   \* no data yet for component
  ELSE [k \in Pos |-> blk[k] * compptr.quant_table[k]]

\* calls: a sequence of IdctCall records
inverse_DCT(s, calls) ==
  LET Hit(ci, row, col) ==
        {j \in 1..Len(calls) :
           calls[j].ci = ci /\ calls[j].out_row = row /\ calls[j].col = col}
      Last(S) == CHOOSE j \in S : \A i \in S : i <= j
  IN [ s EXCEPT
         !.hist.idct = @ \o calls,
         !.output_buf =
            [ci \in DOMAIN s.output_buf |->
               [row \in DOMAIN s.output_buf[ci] |->
                  [col \in DOMAIN s.output_buf[ci][row] |->
                     IF Hit(ci, row, col) = {} THEN s.output_buf[ci][row][col]
                     ELSE IDCT(s.cinfo.comp_info[ci],
                               calls[Last(Hit(ci, row, col))].blk)]]] ]

\* row: block row in the image; out_row: block row in output_buf
\* nbr: the DC values the block was smoothed with and where they were read
IdctCall(ci, row, out_row, col, blk, stored, bits, zero_divide, nbr) ==
  [ ci |-> ci, row |-> row, out_row |-> out_row, col |-> col, blk |-> blk,
    stored |-> stored, bits |-> bits, zero_divide |-> zero_divide, nbr |-> nbr ]

NoNeighbours == <<>>

NoBits == <<>>

----------------------------------------------------------------------------
(* decompress_onepass: the single-pass case.                               *)

\* jzero_far on MCU_buffer[0], blocks_in_MCU blocks (allocated sequentially)
\* variant: one block is zeroed instead of blocks_in_MCU blocks
onepass_zero_first(s) ==
  [ s EXCEPT !.coef.scratch =
      [i \in DOMAIN @ |-> IF i <= 1 THEN ZeroBlock ELSE @[i]] ]

\* variant: the MCU buffer is not zeroed before the entropy decoder fills it
onepass_zero_skip(s) == s

onepass_zero(s) ==
  [ s EXCEPT !.coef.scratch =
      [i \in DOMAIN @ |-> IF i <= s.cinfo.blocks_in_MCU THEN ZeroBlock ELSE @[i]] ]

\* variant: the block index stays when a component is not needed
RECURSIVE onepass_idct_no_advance(_, _, _, _, _)
onepass_idct_no_advance(s, yoffset, MCU_col_num, i, blkn) ==
  IF i >= s.cinfo.comps_in_scan THEN s
  ELSE
    LET compptr == s.cinfo.cur_comp_info[i]
        last_MCU_col == s.cinfo.MCUs_per_row - 1
        last_iMCU_row == s.cinfo.total_iMCU_rows - 1
    IN IF ~compptr.component_needed
       THEN onepass_idct_no_advance(s, yoffset, MCU_col_num, i + 1, blkn)
       ELSE
         LET useful_width == IF MCU_col_num < last_MCU_col THEN compptr.MCU_width
                             ELSE compptr.last_col_width
             base_row == s.cinfo.input_iMCU_row * compptr.v_samp_factor
             start_col == MCU_col_num * compptr.MCU_width
             grid == [j \in 1..(compptr.MCU_height * useful_width) |->
                        [ yindex |-> (j - 1) \div useful_width,
                          xindex |-> (j - 1) % useful_width ]]
             Live(g) == s.cinfo.input_iMCU_row < last_iMCU_row
                        \/ yoffset + g.yindex < compptr.last_row_height
             live == SelectSeq(grid, Live)
             calls == [j \in 1..Len(live) |->
                         LET b == s.coef.scratch[
                                    blkn + live[j].yindex * compptr.MCU_width
                                         + live[j].xindex + 1]
                         IN IdctCall(compptr.component_index,
                                     base_row + yoffset + live[j].yindex,
                                     yoffset + live[j].yindex,
                                     start_col + live[j].xindex, b, b, NoBits, FALSE,
                                     NoNeighbours)]
         IN onepass_idct_no_advance(inverse_DCT(s, calls), yoffset, MCU_col_num, i + 1,
                         blkn + compptr.MCU_height * compptr.MCU_width)

RECURSIVE onepass_idct(_, _, _, _, _)
onepass_idct(s, yoffset, MCU_col_num, i, blkn) ==
  IF i >= s.cinfo.comps_in_scan THEN s
  ELSE
    LET compptr == s.cinfo.cur_comp_info[i]
        last_MCU_col == s.cinfo.MCUs_per_row - 1
        last_iMCU_row == s.cinfo.total_iMCU_rows - 1
    IN IF ~compptr.component_needed
       THEN onepass_idct(s, yoffset, MCU_col_num, i + 1, blkn + compptr.MCU_blocks)
       ELSE
         LET useful_width == IF MCU_col_num < last_MCU_col THEN compptr.MCU_width
                             ELSE compptr.last_col_width
             base_row == s.cinfo.input_iMCU_row * compptr.v_samp_factor
             start_col == MCU_col_num * compptr.MCU_width
             grid == [j \in 1..(compptr.MCU_height * useful_width) |->
                        [ yindex |-> (j - 1) \div useful_width,
                          xindex |-> (j - 1) % useful_width ]]
             Live(g) == s.cinfo.input_iMCU_row < last_iMCU_row
                        \/ yoffset + g.yindex < compptr.last_row_height
             live == SelectSeq(grid, Live)
             calls == [j \in 1..Len(live) |->
                         LET b == s.coef.scratch[
                                    blkn + live[j].yindex * compptr.MCU_width
                                         + live[j].xindex + 1]
                         IN IdctCall(compptr.component_index,
                                     base_row + yoffset + live[j].yindex,
                                     yoffset + live[j].yindex,
                                     start_col + live[j].xindex, b, b, NoBits, FALSE,
                                     NoNeighbours)]
         IN onepass_idct(inverse_DCT(s, calls), yoffset, MCU_col_num, i + 1,
                         blkn + compptr.MCU_height * compptr.MCU_width)

\* variant: the suspension does not save the column reached
onepass_suspend_no_ctr(s, yoffset, MCU_col_num) ==
  [ s EXCEPT !.coef.MCU_vert_offset = yoffset,
             !.hist.ret = "JPEG_SUSPENDED" ]

onepass_suspend(s, yoffset, MCU_col_num) ==
  [ s EXCEPT !.coef.MCU_vert_offset = yoffset,
             !.coef.MCU_ctr = MCU_col_num,
             !.hist.ret = "JPEG_SUSPENDED" ]

RECURSIVE onepass_loop(_, _, _)
onepass_loop(s, yoffset, MCU_col_num) ==
  IF yoffset >= s.coef.MCU_rows_per_iMCU_row THEN s
  ELSE IF MCU_col_num > s.cinfo.MCUs_per_row - 1
  THEN LET s1 == [ s EXCEPT !.coef.MCU_ctr = 0 ]
       IN onepass_loop(s1, yoffset + 1, s1.coef.MCU_ctr)
  ELSE LET s1 == onepass_zero(s)
       IN IF s1.hist.avail = 0
          THEN onepass_suspend(
                 decode_mcu_fail(LogAttempt(s1, yoffset, MCU_col_num, FALSE)),
                 yoffset, MCU_col_num)
          ELSE onepass_loop(
                 onepass_idct(
                   Take(decode_mcu(LogAttempt(s1, yoffset, MCU_col_num, TRUE))),
                   yoffset, MCU_col_num, 0, 0),
                 yoffset, MCU_col_num + 1)

\* variant: the output row-group counter is not advanced
onepass_finish_input_only(s) ==
  LET s1 == [ s EXCEPT !.cinfo.input_iMCU_row = @ + 1 ]
  IN IF s1.cinfo.input_iMCU_row < s1.cinfo.total_iMCU_rows
     THEN [ start_iMCU_row(s1) EXCEPT !.hist.ret = "JPEG_ROW_COMPLETED" ]
     ELSE [ finish_input_pass(s1) EXCEPT !.hist.ret = "JPEG_SCAN_COMPLETED" ]

\* variant: the test for more row-groups is <= instead of <
onepass_finish_le(s) ==
  LET s1 == [ s EXCEPT !.cinfo.output_iMCU_row = @ + 1,
                       !.cinfo.input_iMCU_row = @ + 1 ]
  IN IF s1.cinfo.input_iMCU_row <= s1.cinfo.total_iMCU_rows
     THEN [ start_iMCU_row(s1) EXCEPT !.hist.ret = "JPEG_ROW_COMPLETED" ]
     ELSE [ finish_input_pass(s1) EXCEPT !.hist.ret = "JPEG_SCAN_COMPLETED" ]

onepass_finish(s) ==
  LET s1 == [ s EXCEPT !.cinfo.output_iMCU_row = @ + 1,
                       !.cinfo.input_iMCU_row = @ + 1 ]
  IN IF s1.cinfo.input_iMCU_row < s1.cinfo.total_iMCU_rows
     THEN [ start_iMCU_row(s1) EXCEPT !.hist.ret = "JPEG_ROW_COMPLETED" ]
     ELSE [ finish_input_pass(s1) EXCEPT !.hist.ret = "JPEG_SCAN_COMPLETED" ]

decompress_onepass(s) ==
  LET s1 == [ s EXCEPT !.hist.ret = "" ]
      s2 == onepass_loop(s1, s1.coef.MCU_vert_offset, s1.coef.MCU_ctr)
  IN IF s2.hist.ret = "JPEG_SUSPENDED" THEN s2 ELSE onepass_finish(s2)

----------------------------------------------------------------------------
(* decompress_data: the multi-pass case.                                   *)

\* variant: "<" in place of "<=" in the row comparison
data_behind_strict(s) ==
  \/ s.cinfo.input_scan_number < s.cinfo.output_scan_number
  \/ /\ s.cinfo.input_scan_number = s.cinfo.output_scan_number
     /\ s.cinfo.input_iMCU_row < s.cinfo.output_iMCU_row

\* variant: the row-group comparison is left out
data_behind_scan_only(s) ==
  s.cinfo.input_scan_number <= s.cinfo.output_scan_number

\* the condition of the "force some input" loop
data_behind(s) ==
  \/ s.cinfo.input_scan_number < s.cinfo.output_scan_number
  \/ /\ s.cinfo.input_scan_number = s.cinfo.output_scan_number
     /\ s.cinfo.input_iMCU_row <= s.cinfo.output_iMCU_row

(* The loop spins for ever when consume_input keeps answering              *)
(* JPEG_REACHED_EOI while the condition still holds: that outcome is       *)
(* recorded as the return code "NO_RETURN".                                *)
\* variant: "if" in place of "while", one forced call at most
data_force_input_once(s) ==
  IF ~data_behind(s) THEN s ELSE consume_input(s)

RECURSIVE data_force_input(_)
data_force_input(s) ==
  IF ~data_behind(s) THEN s
  ELSE LET s1 == consume_input(s)
       IN IF s1.hist.ret = "JPEG_SUSPENDED" THEN s1
          ELSE IF s1.hist.ret = "JPEG_REACHED_EOI" /\ data_behind(s1)
          THEN [ s1 EXCEPT !.hist.ret = "NO_RETURN" ]
          ELSE data_force_input(s1)

\* variant: the bottom of the image is not clipped
output_block_rows_noclip(s, compptr) == compptr.v_samp_factor

\* number of non-dummy DCT block rows of the component in this iMCU row
output_block_rows(s, compptr) ==
  IF s.cinfo.output_iMCU_row < s.cinfo.total_iMCU_rows - 1
  THEN compptr.v_samp_factor
  ELSE IF compptr.height_in_blocks % compptr.v_samp_factor = 0
       THEN compptr.v_samp_factor
       ELSE compptr.height_in_blocks % compptr.v_samp_factor

RECURSIVE data_output(_, _)
data_output(s, ci) ==
  IF ci >= s.cinfo.num_components THEN s
  ELSE
    LET compptr == s.cinfo.comp_info[ci]
    IN IF ~compptr.component_needed THEN data_output(s, ci + 1)
       ELSE
         LET first == s.cinfo.output_iMCU_row * compptr.v_samp_factor
             s1 == access_virt_barray(s, ci, first, compptr.v_samp_factor, FALSE)
             block_rows == output_block_rows(s1, compptr)
             w == compptr.width_in_blocks
             calls == [j \in 1..(block_rows * w) |->
                         LET block_row == (j - 1) \div w
                             block_num == (j - 1) % w
                             b == s1.whole_image[ci][first + block_row][block_num]
                         IN IdctCall(ci, first + block_row, block_row, block_num,
                                     b, b, NoBits, FALSE, NoNeighbours)]
         IN data_output(inverse_DCT(s1, calls), ci + 1)

\* variant: the test for more row-groups is <= instead of <
output_finish_le(s) ==
  LET s1 == [ s EXCEPT !.cinfo.output_iMCU_row = @ + 1 ]
  IN IF s1.cinfo.output_iMCU_row <= s1.cinfo.total_iMCU_rows
     THEN [ s1 EXCEPT !.hist.ret = "JPEG_ROW_COMPLETED" ]
     ELSE [ s1 EXCEPT !.hist.ret = "JPEG_SCAN_COMPLETED" ]

output_finish(s) ==
  LET s1 == [ s EXCEPT !.cinfo.output_iMCU_row = @ + 1 ]
  IN IF s1.cinfo.output_iMCU_row < s1.cinfo.total_iMCU_rows
     THEN [ s1 EXCEPT !.hist.ret = "JPEG_ROW_COMPLETED" ]
     ELSE [ s1 EXCEPT !.hist.ret = "JPEG_SCAN_COMPLETED" ]

\* variant: the return code of the forced consume_input is not tested
decompress_data_unchecked(s) ==
  output_finish(data_output(data_force_input([ s EXCEPT !.hist.ret = "" ]), 0))

decompress_data(s) ==
  LET s1 == data_force_input([ s EXCEPT !.hist.ret = "" ])
  IN IF s1.hist.ret \in {"JPEG_SUSPENDED", "NO_RETURN"} THEN s1
     ELSE output_finish(data_output(s1, 0))

----------------------------------------------------------------------------
(* Block smoothing.                                                        *)

\* variant: the quantizers are not tested for zero
RECURSIVE smoothing_ok_loop_nozero(_, _, _)
smoothing_ok_loop_nozero(s, ci, smoothing_useful) ==
  IF ci >= s.cinfo.num_components THEN [s |-> s, ok |-> smoothing_useful]
  ELSE
    LET qtable == s.cinfo.comp_info[ci].quant_table
        coef_bits == s.cinfo.coef_bits[ci]
    IN IF qtable = NoTable THEN [s |-> s, ok |-> FALSE]
       ELSE IF coef_bits[0] < 0 THEN [s |-> s, ok |-> FALSE]
       ELSE smoothing_ok_loop_nozero(
              [ s EXCEPT !.coef.coef_bits_latch =
                  [x \in DOMAIN @ |->
                     IF x \in (ci * SAVED_COEFS + 1)..(ci * SAVED_COEFS + 5)
                     THEN coef_bits[x - ci * SAVED_COEFS] ELSE @[x]] ],
              ci + 1,
              smoothing_useful \/ \E coefi \in 1..5 : coef_bits[coefi] # 0)

\* smoothing_ok: is block smoothing applicable and safe?  Latches coef_bits.
RECURSIVE smoothing_ok_loop(_, _, _)
smoothing_ok_loop(s, ci, smoothing_useful) ==
  IF ci >= s.cinfo.num_components THEN [s |-> s, ok |-> smoothing_useful]
  ELSE
    LET qtable == s.cinfo.comp_info[ci].quant_table
        coef_bits == s.cinfo.coef_bits[ci]
    IN IF qtable = NoTable THEN [s |-> s, ok |-> FALSE]
       ELSE IF \/ qtable[0] = 0
               \/ qtable[Q01_POS] = 0
               \/ qtable[Q10_POS] = 0
               \/ qtable[Q20_POS] = 0
               \/ qtable[Q11_POS] = 0
               \/ qtable[Q02_POS] = 0
       THEN [s |-> s, ok |-> FALSE]
       ELSE IF coef_bits[0] < 0 THEN [s |-> s, ok |-> FALSE]
       ELSE smoothing_ok_loop(
              [ s EXCEPT !.coef.coef_bits_latch =
                  [x \in DOMAIN @ |->
                     IF x \in (ci * SAVED_COEFS + 1)..(ci * SAVED_COEFS + 5)
                     THEN coef_bits[x - ci * SAVED_COEFS] ELSE @[x]] ],
              ci + 1,
              smoothing_useful \/ \E coefi \in 1..5 : coef_bits[coefi] # 0)

NoLatch == <<>>

\* alloc_small of the latch; the history counts the allocations
alloc_latch(s) ==
  [ s EXCEPT !.coef.coef_bits_latch =
               [x \in 0..(s.cinfo.num_components * SAVED_COEFS - 1) |-> 0],
             !.hist.latch_allocs = @ + 1 ]

\* variant: smoothing counts as useful before any component is looked at
smoothing_ok_useful(s) ==
  IF ~s.cinfo.progressive_mode \/ s.cinfo.coef_bits = NoBits
  THEN [s |-> s, ok |-> FALSE]
  ELSE LET s1 == IF s.coef.coef_bits_latch = NoLatch THEN alloc_latch(s) ELSE s
       IN smoothing_ok_loop(s1, 0, TRUE)

\* variant: the latch is allocated at every evaluation
smoothing_ok_realloc(s) ==
  IF ~s.cinfo.progressive_mode \/ s.cinfo.coef_bits = NoBits
  THEN [s |-> s, ok |-> FALSE]
  ELSE smoothing_ok_loop(alloc_latch(s), 0, FALSE)

smoothing_ok(s) ==
  IF ~s.cinfo.progressive_mode \/ s.cinfo.coef_bits = NoBits
  THEN [s |-> s, ok |-> FALSE]
  ELSE LET s1 == IF s.coef.coef_bits_latch = NoLatch THEN alloc_latch(s) ELSE s
       IN smoothing_ok_loop(s1, 0, FALSE)

\* variant: block smoothing is used whether or not the application asked
start_output_pass_unasked(s) ==
  LET r == IF s.coef.coef_arrays
           THEN LET t == smoothing_ok(s)
                IN IF t.ok
                   THEN [ t.s EXCEPT !.coef.decompress_data = "decompress_smooth_data" ]
                   ELSE [ t.s EXCEPT !.coef.decompress_data = "decompress_data" ]
           ELSE s
  IN [ r EXCEPT !.cinfo.output_iMCU_row = 0 ]

(* start_output_pass: initialize for an output processing pass.            *)
start_output_pass(s) ==
  LET r == IF s.coef.coef_arrays
           THEN IF s.cinfo.do_block_smoothing
                THEN LET t == smoothing_ok(s)
                     IN IF t.ok
                        THEN [ t.s EXCEPT !.coef.decompress_data = "decompress_smooth_data" ]
                        ELSE [ t.s EXCEPT !.coef.decompress_data = "decompress_data" ]
                ELSE [ s EXCEPT !.coef.decompress_data = "decompress_data" ]
           ELSE s
  IN [ r EXCEPT !.cinfo.output_iMCU_row = 0 ]

(* One coefficient estimate: magnitude ((Q<<7) + |num|) / (Q<<8), clamped  *)
(* to (1<<Al)-1 when Al > 0, with the sign of num.  A zero Q divides by    *)
(* zero.                                                                   *)
\* variant: the magnitude is truncated, not rounded
Estimate_truncate(num, Q, Al) ==
  LET mag(n) == n \div (Q * 256)
      clamp(p) == IF Al > 0 /\ p >= 2 ^ Al THEN 2 ^ Al - 1 ELSE p
  IN IF Q * 256 = 0 THEN [pred |-> 0, zero_divide |-> TRUE]
     ELSE IF num >= 0 THEN [pred |-> clamp(mag(num)), zero_divide |-> FALSE]
     ELSE [pred |-> -clamp(mag(-num)), zero_divide |-> FALSE]

\* variant: the magnitude is not clamped
Estimate_no_clamp(num, Q, Al) ==
  LET mag(n) == ((Q * 128) + n) \div (Q * 256)
  IN IF Q * 256 = 0 THEN [pred |-> 0, zero_divide |-> TRUE]
     ELSE IF num >= 0 THEN [pred |-> mag(num), zero_divide |-> FALSE]
     ELSE [pred |-> -mag(-num), zero_divide |-> FALSE]

Estimate(num, Q, Al) ==
  LET mag(n) == ((Q * 128) + n) \div (Q * 256)
      clamp(p) == IF Al > 0 /\ p >= 2 ^ Al THEN 2 ^ Al - 1 ELSE p
  IN IF Q * 256 = 0 THEN [pred |-> 0, zero_divide |-> TRUE]
     ELSE IF num >= 0 THEN [pred |-> clamp(mag(num)), zero_divide |-> FALSE]
     ELSE [pred |-> -clamp(mag(-num)), zero_divide |-> FALSE]

\* variant: an estimate is applied whether or not the coefficient is zero
smooth_block_overwrite(workspace, dc, Q, coef_bits) ==
  LET e01 == Estimate(36 * Q[0] * (dc.DC4 - dc.DC6), Q[Q01_POS], coef_bits[1])
      e10 == Estimate(36 * Q[0] * (dc.DC2 - dc.DC8), Q[Q10_POS], coef_bits[2])
      e20 == Estimate(9 * Q[0] * (dc.DC2 + dc.DC8 - 2 * dc.DC5), Q[Q20_POS], coef_bits[3])
      e11 == Estimate(5 * Q[0] * (dc.DC1 - dc.DC3 - dc.DC7 + dc.DC9), Q[Q11_POS], coef_bits[4])
      e02 == Estimate(9 * Q[0] * (dc.DC4 + dc.DC6 - 2 * dc.DC5), Q[Q02_POS], coef_bits[5])
  IN [ blk |-> [ workspace EXCEPT
                   ![1] = IF coef_bits[1] # 0 THEN e01.pred ELSE @,
                   ![8] = IF coef_bits[2] # 0 THEN e10.pred ELSE @,
                   ![16] = IF coef_bits[3] # 0 THEN e20.pred ELSE @,
                   ![9] = IF coef_bits[4] # 0 THEN e11.pred ELSE @,
                   ![2] = IF coef_bits[5] # 0 THEN e02.pred ELSE @ ],
       zero_divide |-> \/ e01.zero_divide \/ e10.zero_divide \/ e20.zero_divide
                       \/ e11.zero_divide \/ e02.zero_divide ]

\* the five estimates of one block: workspace is the copy of the stored block
smooth_block(workspace, dc, Q, coef_bits) ==
  LET e01 == Estimate(36 * Q[0] * (dc.DC4 - dc.DC6), Q[Q01_POS], coef_bits[1])
      e10 == Estimate(36 * Q[0] * (dc.DC2 - dc.DC8), Q[Q10_POS], coef_bits[2])
      e20 == Estimate(9 * Q[0] * (dc.DC2 + dc.DC8 - 2 * dc.DC5), Q[Q20_POS], coef_bits[3])
      e11 == Estimate(5 * Q[0] * (dc.DC1 - dc.DC3 - dc.DC7 + dc.DC9), Q[Q11_POS], coef_bits[4])
      e02 == Estimate(9 * Q[0] * (dc.DC4 + dc.DC6 - 2 * dc.DC5), Q[Q02_POS], coef_bits[5])
      do01 == coef_bits[1] # 0 /\ workspace[1] = 0
      do10 == coef_bits[2] # 0 /\ workspace[8] = 0
      do20 == coef_bits[3] # 0 /\ workspace[16] = 0
      do11 == coef_bits[4] # 0 /\ workspace[9] = 0
      do02 == coef_bits[5] # 0 /\ workspace[2] = 0
  IN [ blk |-> [ workspace EXCEPT
                   ![1] = IF do01 THEN e01.pred ELSE @,
                   ![8] = IF do10 THEN e10.pred ELSE @,
                   ![16] = IF do20 THEN e20.pred ELSE @,
                   ![9] = IF do11 THEN e11.pred ELSE @,
                   ![2] = IF do02 THEN e02.pred ELSE @ ],
       zero_divide |-> \/ do01 /\ e01.zero_divide
                       \/ do10 /\ e10.zero_divide
                       \/ do20 /\ e20.zero_divide
                       \/ do11 /\ e11.zero_divide
                       \/ do02 /\ e02.zero_divide ]

----------------------------------------------------------------------------
(* decompress_smooth_data: variant of decompress_data for block smoothing. *)

\* variant: no extra row-group is asked of a DC scan
RECURSIVE smooth_force_input_no_delta(_)
smooth_force_input_no_delta(s) ==
  IF ~(s.cinfo.input_scan_number <= s.cinfo.output_scan_number
       /\ ~s.cinfo.inputctl.eoi_reached)
  THEN s
  ELSE IF /\ s.cinfo.input_scan_number = s.cinfo.output_scan_number
          /\ s.cinfo.input_iMCU_row > s.cinfo.output_iMCU_row
       THEN s
       ELSE LET s1 == consume_input(s)
            IN IF s1.hist.ret = "JPEG_SUSPENDED" THEN s1
               ELSE smooth_force_input_no_delta(s1)

RECURSIVE smooth_force_input(_)
smooth_force_input(s) ==
  IF ~(s.cinfo.input_scan_number <= s.cinfo.output_scan_number
       /\ ~s.cinfo.inputctl.eoi_reached)
  THEN s
  ELSE LET delta == IF s.cinfo.Ss = 0 THEN 1 ELSE 0
       IN IF /\ s.cinfo.input_scan_number = s.cinfo.output_scan_number
             /\ s.cinfo.input_iMCU_row > s.cinfo.output_iMCU_row + delta
          THEN s
          ELSE LET s1 == consume_input(s)
               IN IF s1.hist.ret = "JPEG_SUSPENDED" THEN s1
                  ELSE smooth_force_input(s1)

\* variant: coef_bits is read from cinfo, not from the latch
RECURSIVE smooth_columns_unlatched(_, _, _, _, _, _, _, _)
smooth_columns_unlatched(s, ci, block_row, cur, prev, next, block_num, st) ==
  LET compptr == s.cinfo.comp_info[ci]
      last_block_column == compptr.width_in_blocks - 1
      img == s.whole_image[ci]
      coef_bits == s.cinfo.coef_bits[ci]
  IN IF block_num > last_block_column THEN st.acc
     ELSE LET workspace == img[cur][block_num]
              dc == IF block_num < last_block_column
                    THEN [ st.dc EXCEPT !.DC3 = img[prev][block_num + 1][0],
                                        !.DC6 = img[cur][block_num + 1][0],
                                        !.DC9 = img[next][block_num + 1][0] ]
                    ELSE st.dc
              r == smooth_block(workspace, dc, compptr.quant_table, coef_bits)
              call == IdctCall(ci, cur, block_row, block_num, r.blk, workspace,
                               coef_bits, r.zero_divide,
                               [ dc |-> dc, prev |-> prev, next |-> next,
                                 right |-> IF block_num < last_block_column
                                           THEN block_num + 1 ELSE block_num ])
              adv == [ dc EXCEPT !.DC1 = dc.DC2, !.DC2 = dc.DC3,
                                 !.DC4 = dc.DC5, !.DC5 = dc.DC6,
                                 !.DC7 = dc.DC8, !.DC8 = dc.DC9 ]
          IN smooth_columns_unlatched(s, ci, block_row, cur, prev, next, block_num + 1,
                            [dc |-> adv, acc |-> Append(st.acc, call)])

\* the loop over the block columns of one block row; acc collects the calls
RECURSIVE smooth_columns(_, _, _, _, _, _, _, _)
smooth_columns(s, ci, block_row, cur, prev, next, block_num, st) ==
  LET compptr == s.cinfo.comp_info[ci]
      last_block_column == compptr.width_in_blocks - 1
      img == s.whole_image[ci]
      coef_bits == [coefi \in 0..(SAVED_COEFS - 1) |->
                      s.coef.coef_bits_latch[ci * SAVED_COEFS + coefi]]
  IN IF block_num > last_block_column THEN st.acc
     ELSE LET workspace == img[cur][block_num]
              dc == IF block_num < last_block_column
                    THEN [ st.dc EXCEPT !.DC3 = img[prev][block_num + 1][0],
                                        !.DC6 = img[cur][block_num + 1][0],
                                        !.DC9 = img[next][block_num + 1][0] ]
                    ELSE st.dc
              r == smooth_block(workspace, dc, compptr.quant_table, coef_bits)
              call == IdctCall(ci, cur, block_row, block_num, r.blk, workspace,
                               coef_bits, r.zero_divide,
                               [ dc |-> dc, prev |-> prev, next |-> next,
                                 right |-> IF block_num < last_block_column
                                           THEN block_num + 1 ELSE block_num ])
              adv == [ dc EXCEPT !.DC1 = dc.DC2, !.DC2 = dc.DC3,
                                 !.DC4 = dc.DC5, !.DC5 = dc.DC6,
                                 !.DC7 = dc.DC8, !.DC8 = dc.DC9 ]
          IN smooth_columns(s, ci, block_row, cur, prev, next, block_num + 1,
                            [dc |-> adv, acc |-> Append(st.acc, call)])

\* variant: the last block row of every row-group is its own next row
RECURSIVE smooth_rows_group_edge(_, _, _, _, _)
smooth_rows_group_edge(s, ci, block_row, block_rows, acc) ==
  IF block_row >= block_rows THEN acc
  ELSE
    LET compptr == s.cinfo.comp_info[ci]
        img == s.whole_image[ci]
        first_row == ~(s.cinfo.output_iMCU_row > 0)
        last_row == ~(s.cinfo.output_iMCU_row < s.cinfo.total_iMCU_rows - 1)
        \* buffer[0] is the first block row of the current iMCU row
        base == s.cinfo.output_iMCU_row * compptr.v_samp_factor
        cur == base + block_row
        prev == IF first_row /\ block_row = 0 THEN cur ELSE cur - 1
        next == IF block_row = block_rows - 1 THEN cur ELSE cur + 1
        dc0 == [ DC1 |-> img[prev][0][0], DC2 |-> img[prev][0][0], DC3 |-> img[prev][0][0],
                 DC4 |-> img[cur][0][0], DC5 |-> img[cur][0][0], DC6 |-> img[cur][0][0],
                 DC7 |-> img[next][0][0], DC8 |-> img[next][0][0], DC9 |-> img[next][0][0] ]
    IN smooth_rows_group_edge(s, ci, block_row + 1, block_rows,
                   acc \o smooth_columns(s, ci, block_row, cur, prev, next, 0,
                                         [dc |-> dc0, acc |-> <<>>]))

RECURSIVE smooth_rows(_, _, _, _, _)
smooth_rows(s, ci, block_row, block_rows, acc) ==
  IF block_row >= block_rows THEN acc
  ELSE
    LET compptr == s.cinfo.comp_info[ci]
        img == s.whole_image[ci]
        first_row == ~(s.cinfo.output_iMCU_row > 0)
        last_row == ~(s.cinfo.output_iMCU_row < s.cinfo.total_iMCU_rows - 1)
        \* buffer[0] is the first block row of the current iMCU row
        base == s.cinfo.output_iMCU_row * compptr.v_samp_factor
        cur == base + block_row
        prev == IF first_row /\ block_row = 0 THEN cur ELSE cur - 1
        next == IF last_row /\ block_row = block_rows - 1 THEN cur ELSE cur + 1
        dc0 == [ DC1 |-> img[prev][0][0], DC2 |-> img[prev][0][0], DC3 |-> img[prev][0][0],
                 DC4 |-> img[cur][0][0], DC5 |-> img[cur][0][0], DC6 |-> img[cur][0][0],
                 DC7 |-> img[next][0][0], DC8 |-> img[next][0][0], DC9 |-> img[next][0][0] ]
    IN smooth_rows(s, ci, block_row + 1, block_rows,
                   acc \o smooth_columns(s, ci, block_row, cur, prev, next, 0,
                                         [dc |-> dc0, acc |-> <<>>]))

\* number of non-dummy DCT block rows of the component in this iMCU row
smooth_block_rows(s, compptr) ==
  IF s.cinfo.output_iMCU_row < s.cinfo.total_iMCU_rows - 1
  THEN compptr.v_samp_factor
  ELSE IF compptr.height_in_blocks % compptr.v_samp_factor = 0
       THEN compptr.v_samp_factor
       ELSE compptr.height_in_blocks % compptr.v_samp_factor

\* variant: the next row-group is asked for on the last one too
smooth_access_next_always(s, ci) ==
  LET compptr == s.cinfo.comp_info[ci]
      access_rows == compptr.v_samp_factor * 2
  IN IF s.cinfo.output_iMCU_row > 0
     THEN access_virt_barray(s, ci,
            (s.cinfo.output_iMCU_row - 1) * compptr.v_samp_factor,
            access_rows + compptr.v_samp_factor, FALSE)
     ELSE access_virt_barray(s, ci, 0, access_rows, FALSE)

\* the virtual-array request of one component
smooth_access(s, ci) ==
  LET compptr == s.cinfo.comp_info[ci]
      block_rows == smooth_block_rows(s, compptr)
      access_rows == IF s.cinfo.output_iMCU_row < s.cinfo.total_iMCU_rows - 1
                     THEN block_rows * 2 ELSE block_rows
  IN IF s.cinfo.output_iMCU_row > 0
     THEN access_virt_barray(s, ci,
            (s.cinfo.output_iMCU_row - 1) * compptr.v_samp_factor,
            access_rows + compptr.v_samp_factor, FALSE)
     ELSE access_virt_barray(s, ci, 0, access_rows, FALSE)

RECURSIVE smooth_output(_, _)
smooth_output(s, ci) ==
  IF ci >= s.cinfo.num_components THEN s
  ELSE
    LET compptr == s.cinfo.comp_info[ci]
    IN IF ~compptr.component_needed THEN smooth_output(s, ci + 1)
       ELSE LET s1 == smooth_access(s, ci)
                calls == smooth_rows(s1, ci, 0, smooth_block_rows(s1, compptr), <<>>)
                s2 == [ inverse_DCT(s1, calls) EXCEPT !.hist.zero_divide =
                          @ \/ \E j \in 1..Len(calls) : calls[j].zero_divide ]
            IN smooth_output(s2, ci + 1)

smooth_finish(s) ==
  LET s1 == [ s EXCEPT !.cinfo.output_iMCU_row = @ + 1 ]
  IN IF s1.cinfo.output_iMCU_row < s1.cinfo.total_iMCU_rows
     THEN [ s1 EXCEPT !.hist.ret = "JPEG_ROW_COMPLETED" ]
     ELSE [ s1 EXCEPT !.hist.ret = "JPEG_SCAN_COMPLETED" ]

\* variant: the estimates are written into the stored blocks
decompress_smooth_data_inplace(s) ==
  LET s1 == smooth_force_input([ s EXCEPT !.hist.ret = "" ])
      s2 == smooth_finish(smooth_output(s1, 0))
      Hit(ci, row, col) ==
        {j \in 1..Len(s2.hist.idct) :
           /\ s2.hist.idct[j].ci = ci /\ s2.hist.idct[j].row = row
           /\ s2.hist.idct[j].col = col}
  IN IF s1.hist.ret = "JPEG_SUSPENDED" THEN s1
     ELSE [ s2 EXCEPT !.whole_image =
              [ci \in DOMAIN @ |-> [row \in DOMAIN @[ci] |->
                 [col \in DOMAIN @[ci][row] |->
                    IF Hit(ci, row, col) = {} THEN @[ci][row][col]
                    ELSE s2.hist.idct[CHOOSE j \in Hit(ci, row, col) : TRUE].blk]]] ]

decompress_smooth_data(s) ==
  LET s1 == smooth_force_input([ s EXCEPT !.hist.ret = "" ])
  IN IF s1.hist.ret = "JPEG_SUSPENDED" THEN s1
     ELSE smooth_finish(smooth_output(s1, 0))

----------------------------------------------------------------------------
(* jinit_d_coef_controller: initialize the coefficient buffer controller.  *)

D_MAX_BLOCKS_IN_MCU == 10
GarbageBlock == [k \in Pos |-> k + 1]    \* memory that was never written

\* variant: the full buffer is set up whether or not multi-pass support
\* is compiled in
jinit_d_coef_controller_no_check(ci0, need_full_buffer) ==
  LET plane(c, v) ==
        [row \in 0..(jround_up(c.height_in_blocks, c.v_samp_factor) - 1) |->
           [col \in 0..(jround_up(c.width_in_blocks, c.h_samp_factor) - 1) |-> v]]
      base == [ MCU_ctr |-> 0, MCU_vert_offset |-> 0, MCU_rows_per_iMCU_row |-> 0,
                coef_bits_latch |-> <<>> ]
  IN IF need_full_buffer
     THEN [ cinfo |-> ci0,
            coef |-> base @@
              [ MCU_buffer |-> <<>>, scratch |-> <<>>,
                consume_data |-> "consume_data",
                decompress_data |-> "decompress_data",
                coef_arrays |-> TRUE ],
            whole_image |-> [ci \in DOMAIN ci0.comp_info |->
                               plane(ci0.comp_info[ci], ZeroBlock)] ]
     ELSE [ cinfo |-> ci0,
            coef |-> base @@
              [ MCU_buffer |-> [i \in 1..D_MAX_BLOCKS_IN_MCU |-> ScratchPtr(i)],
                scratch |-> [i \in 1..D_MAX_BLOCKS_IN_MCU |-> GarbageBlock],
                consume_data |-> "dummy_consume_data",
                decompress_data |-> "decompress_onepass",
                coef_arrays |-> FALSE ],
            whole_image |-> [ci \in DOMAIN ci0.comp_info |-> <<>>] ]

NotInstalled == ""    \* a method pointer that was never assigned

jinit_d_coef_controller(ci0, need_full_buffer) ==
  LET plane(c, v) ==
        [row \in 0..(jround_up(c.height_in_blocks, c.v_samp_factor) - 1) |->
           [col \in 0..(jround_up(c.width_in_blocks, c.h_samp_factor) - 1) |-> v]]
      base == [ MCU_ctr |-> 0, MCU_vert_offset |-> 0, MCU_rows_per_iMCU_row |-> 0,
                coef_bits_latch |-> NoLatch ]
  IN IF need_full_buffer /\ ~ci0.D_MULTISCAN_FILES_SUPPORTED
     THEN \* ERREXIT(cinfo, JERR_NOT_COMPILED): the error exit does not return
          [ cinfo |-> [ ci0 EXCEPT !.msg_code = "JERR_NOT_COMPILED" ],
            coef |-> base @@
              [ MCU_buffer |-> <<>>, scratch |-> <<>>,
                consume_data |-> NotInstalled,
                decompress_data |-> NotInstalled,
                coef_arrays |-> FALSE ],
            whole_image |-> [ci \in DOMAIN ci0.comp_info |-> <<>>] ]
     ELSE IF need_full_buffer
     THEN [ cinfo |-> ci0,
            coef |-> base @@
              [ MCU_buffer |-> <<>>, scratch |-> <<>>,
                consume_data |-> "consume_data",
                decompress_data |-> "decompress_data",
                coef_arrays |-> TRUE ],
            \* pre-zeroed full-image virtual arrays
            whole_image |-> [ci \in DOMAIN ci0.comp_info |->
                               plane(ci0.comp_info[ci], ZeroBlock)] ]
     ELSE [ cinfo |-> ci0,
            coef |-> base @@
              [ MCU_buffer |-> [i \in 1..D_MAX_BLOCKS_IN_MCU |-> ScratchPtr(i)],
                scratch |-> [i \in 1..D_MAX_BLOCKS_IN_MCU |-> GarbageBlock],
                consume_data |-> "dummy_consume_data",
                decompress_data |-> "decompress_onepass",
                coef_arrays |-> FALSE ],
            whole_image |-> [ci \in DOMAIN ci0.comp_info |-> <<>>] ]

(* The decompression object after the headers are read (jdapimin.c,        *)
(* jdmaster.c): the image geometry and the decoding parameters.            *)
read_header(n, samp0, Wb, Hb, needed1, qt, progressive, smoothing) ==
  [ D_MULTISCAN_FILES_SUPPORTED |-> TRUE,   \* the build option (jmorecfg.h)
    msg_code |-> "",                        \* cinfo->err->msg_code
    num_components |-> n,
    comp_info |-> initial_setup(n, samp0, Wb, Hb, needed1),
    quant_tbl |-> qt,
    progressive_mode |-> progressive,
    do_block_smoothing |-> smoothing,
    image_width_blocks |-> Wb,
    image_height_blocks |-> Hb,
    total_iMCU_rows |-> CeilDiv(Hb, samp0[2]),
    input_scan_number |-> 0, output_scan_number |-> 0,
    input_iMCU_row |-> 0, output_iMCU_row |-> 0,
    comps_in_scan |-> 0, cur_comp_info |-> <<>>, MCUs_per_row |-> 0,
    blocks_in_MCU |-> 0, Ss |-> 0,
    coef_bits |-> IF progressive
                  THEN [ci \in 0..(n - 1) |-> [z \in 0..(SAVED_COEFS - 1) |-> -1]]
                  ELSE NoBits,
    entropy |-> [mcus_decoded |-> 0],
    inputctl |-> [in_scan |-> FALSE, eoi_reached |-> FALSE],
    output_active |-> FALSE ]

\* no Java object: the decoder is driven directly
NoJNI == <<>>

NoHist ==
  [ call |-> "", ret |-> "", avail |-> 0, decodes |-> <<>>, decoded |-> <<>>,
    idct |-> <<>>, access |-> <<>>, consumed |-> <<>>, finish_input_pass |-> 0,
    zero_divide |-> FALSE, pass_after_eoi |-> FALSE, latch_allocs |-> 0 ]

StreamOf(kind, n) ==
  CASE kind = "baseline" -> BaselineStream(n)
    [] kind = "multiscan" -> MultiscanStream(n)
    [] OTHER -> ProgressiveStream(n)

Kinds == {"baseline", "multiscan", "progressive"}

(* The decodes explored.  Sequential files (one scan, or one scan per     *)
(* component) are decoded in every geometry, with and without a full       *)
(* buffer; a single pass needs a one-scan file.  Progressive files are     *)
(* decoded at the largest width and height with block smoothing on and     *)
(* off, and in a one-row image with each table that holds a zero.  The     *)
(* build without D_MULTISCAN_FILES_SUPPORTED decodes one-component         *)
(* one-scan files of the largest size.  The application can turn off the   *)
(* output of either component of a two-component file.                     *)
AllConfigs ==
  [ n : 1..2, samp0 : Sampling, Wb : 1..MaxBlocksWide, Hb : 1..MaxBlocksHigh,
    needed0 : BOOLEAN, needed1 : BOOLEAN, qt : QuantTables, kind : Kinds,
    full : BOOLEAN, smoothing : BOOLEAN, multiscan : BOOLEAN ]

Configs ==
  { c \in AllConfigs :
      /\ ~c.needed0 =>
            /\ c.kind = "baseline" /\ c.n = 2 /\ c.needed1 /\ ~c.full
            /\ c.Wb = MaxBlocksWide /\ c.Hb = MaxBlocksHigh
      /\ ~c.multiscan =>
            /\ c.kind = "baseline" /\ c.n = 1
            /\ c.Wb = MaxBlocksWide /\ c.Hb = MaxBlocksHigh
      /\ c.n = 1 => c.needed1 /\ c.kind # "multiscan"
      /\ ~c.full => c.kind = "baseline"
      /\ c.kind # "progressive" => c.smoothing /\ c.qt[0] = 16
      /\ c.kind = "multiscan" =>
            /\ c.samp0[1] = 1
            /\ c.Wb = MaxBlocksWide /\ c.Hb = MaxBlocksHigh
      /\ c.kind = "progressive" =>
            /\ c.n = 2 /\ c.needed1 /\ c.samp0[1] = 1
            /\ c.qt[0] = 16 => c.Wb = MaxBlocksWide /\ c.Hb = MaxBlocksHigh
            /\ c.qt[0] # 16 =>
                  c.smoothing /\ c.samp0[2] = 1 /\ c.Wb = 2 /\ c.Hb = 1
            /\ ~c.smoothing => c.samp0[2] = 1 }

Construct(c) ==
  LET j == jinit_d_coef_controller(
             [ read_header(c.n, c.samp0, c.Wb, c.Hb, c.needed1, c.qt,
                           c.kind = "progressive", c.smoothing)
                 EXCEPT !.D_MULTISCAN_FILES_SUPPORTED = c.multiscan,
                        !.comp_info[0].component_needed = c.needed0 ],
             c.full)
  IN [ cinfo |-> j.cinfo, coef |-> j.coef, whole_image |-> j.whole_image,
       output_buf |-> [ci \in DOMAIN j.cinfo.comp_info |->
          LET cp == j.cinfo.comp_info[ci]
          IN [row \in 0..(cp.v_samp_factor - 1) |->
                [col \in 0..(jround_up(cp.width_in_blocks, cp.h_samp_factor) - 1) |->
                   NoBlock]]],
       hist |-> NoHist ]

Init ==
  \E c \in Configs :
    LET s == Construct(c)
    IN /\ cinfo = s.cinfo
       /\ coef = s.coef
       /\ whole_image = s.whole_image
       /\ output_buf = s.output_buf
       /\ hist = s.hist
       /\ jni = NoJNI
       /\ stream = StreamOf(c.kind, c.n)
       /\ decode = c

----------------------------------------------------------------------------
(* The entry points as actions.  Each call is handed `avail`, the number   *)
(* of input units (MCUs, markers) the data source can deliver before it    *)
(* runs dry; NoSuspension means the source never runs dry in this call.    *)

State ==
  [ cinfo |-> cinfo, coef |-> coef, whole_image |-> whole_image,
    output_buf |-> output_buf, hist |-> hist ]

BeginCall(s, name, avail) ==
  [ s EXCEPT !.hist.call = name, !.hist.ret = "", !.hist.avail = avail,
             !.hist.decodes = <<>>, !.hist.idct = <<>>, !.hist.access = <<>>,
             !.hist.consumed = <<>>,
             !.hist.finish_input_pass = 0 ]

Becomes(s) ==
  /\ cinfo' = s.cinfo
  /\ coef' = s.coef
  /\ whole_image' = s.whole_image
  /\ output_buf' = s.output_buf
  /\ hist' = [ s.hist EXCEPT !.avail = 0 ]
  /\ UNCHANGED <<stream, decode, jni>>

Running == hist.ret # "NO_RETURN" /\ cinfo.msg_code = ""

\* jpeg_consume_input: one call of inputctl->consume_input
ConsumeInput ==
  /\ Running
  /\ ~cinfo.inputctl.eoi_reached
  /\ \E avail \in Avail :
       Becomes(consume_input(BeginCall(State, "consume_input", avail)))

\* jpeg_start_decompress / jpeg_start_output: choose the scan to display (the
\* scan being read, or the one after it, which the output pass then waits
\* for) and start an output pass
StartOutput ==
  /\ Running
  /\ cinfo.input_scan_number >= 1
  /\ ~cinfo.output_active
  /\ \E scan_number \in {cinfo.input_scan_number, cinfo.input_scan_number + 1} :
       /\ ~coef.coef_arrays => scan_number = cinfo.input_scan_number
       /\ LET n == IF cinfo.inputctl.eoi_reached
                      /\ scan_number > cinfo.input_scan_number
                   THEN cinfo.input_scan_number ELSE scan_number
              s == BeginCall(State, "start_output_pass", 0)
          IN Becomes(start_output_pass(
               [ s EXCEPT !.cinfo.output_scan_number = n,
                          !.cinfo.output_active = TRUE,
                          !.hist.pass_after_eoi = cinfo.inputctl.eoi_reached ]))

CanOutput ==
  /\ Running
  /\ cinfo.output_active
  /\ cinfo.output_iMCU_row < cinfo.total_iMCU_rows

DecompressOnepass ==
  /\ CanOutput
  /\ coef.decompress_data = "decompress_onepass"
  /\ \E avail \in Avail :
       Becomes(decompress_onepass(BeginCall(State, "decompress_onepass", avail)))

DecompressData ==
  /\ CanOutput
  /\ coef.decompress_data = "decompress_data"
  /\ \E avail \in Avail :
       Becomes(decompress_data(BeginCall(State, "decompress_data", avail)))

DecompressSmoothData ==
  /\ CanOutput
  /\ coef.decompress_data = "decompress_smooth_data"
  /\ \E avail \in Avail :
       Becomes(decompress_smooth_data(
                 BeginCall(State, "decompress_smooth_data", avail)))

\* jpeg_finish_output: read input to the end of the displayed scan, then
\* leave the output pass
RECURSIVE finish_output(_)
finish_output(s) ==
  IF s.cinfo.input_scan_number <= s.cinfo.output_scan_number
     /\ ~s.cinfo.inputctl.eoi_reached
  THEN LET s1 == consume_input(s)
       IN IF s1.hist.ret = "JPEG_SUSPENDED" THEN s1 ELSE finish_output(s1)
  ELSE [ s EXCEPT !.cinfo.output_active = FALSE, !.hist.ret = "TRUE" ]

FinishOutput ==
  /\ Running
  /\ cinfo.output_active
  /\ coef.coef_arrays
  /\ \E avail \in Avail :
       Becomes(finish_output(BeginCall(State, "finish_output", avail)))

Next ==
  \/ ConsumeInput
  \/ StartOutput
  \/ DecompressOnepass
  \/ DecompressData
  \/ DecompressSmoothData
  \/ FinishOutput

Spec == Init /\ [][Next]_vars

----------------------------------------------------------------------------
(* smoothing_ok on its inputs.  A two-component file has been read to its  *)
(* end by a decoder with a full buffer.  What its scans were shows in      *)
(* coef_bits and in the saved tables only: a component no scan held has no *)
(* table and all of coef_bits -1; a component some scan held has its       *)
(* table, and its coef_bits are -1 (never sent), 0 (sent in full) or 1     *)
(* (one bit to come), the AC positions alike or one position apart from    *)
(* the rest.  The application then starts an output pass.                  *)

ACPatterns ==
  { [z \in 1..(SAVED_COEFS - 1) |-> v] : v \in {-1, 0, 1} }
    \cup { [z \in 1..(SAVED_COEFS - 1) |-> IF z = k THEN 1 ELSE 0] :
             k \in {1, SAVED_COEFS - 1} }

Unseen == [z \in 0..(SAVED_COEFS - 1) |-> -1]

SeenBits ==
  { [z \in 0..(SAVED_COEFS - 1) |-> IF z = 0 THEN dc ELSE ac[z]] :
      dc \in {-1, 0, 1}, ac \in ACPatterns } \ {Unseen}

AfterScans(c, bits) ==
  LET s == Construct(c)
  IN [ s EXCEPT
         !.cinfo.comp_info =
            [ci \in DOMAIN @ |->
               [ @[ci] EXCEPT !.quant_table =
                   IF bits[ci] = Unseen THEN NoTable ELSE c.qt ]],
         !.cinfo.coef_bits =
            IF c.kind = "progressive" THEN bits ELSE NoBits,
         !.cinfo.input_scan_number = 1,
         !.cinfo.inputctl.eoi_reached = TRUE ]

InitSmoothing ==
  \E qt \in QuantTables, kind \in {"multiscan", "progressive"},
     smoothing \in BOOLEAN,
     bits \in [0..1 -> SeenBits \cup {Unseen}] :
    /\ \E ci \in 0..1 : bits[ci] # Unseen
    /\ kind = "multiscan" => \A ci \in 0..1 : bits[ci] \in {Unseen, [z \in 0..(SAVED_COEFS - 1) |-> 0]}
    /\ LET c == [ n |-> 2, samp0 |-> <<1, 1>>, Wb |-> 1, Hb |-> 1,
                  needed0 |-> TRUE, needed1 |-> TRUE, qt |-> qt, kind |-> kind,
                  full |-> TRUE,
                  smoothing |-> smoothing, multiscan |-> TRUE ]
           s == AfterScans(c, bits)
       IN /\ cinfo = s.cinfo
          /\ coef = s.coef
          /\ whole_image = s.whole_image
          /\ output_buf = s.output_buf
          /\ hist = s.hist
          /\ jni = NoJNI
          /\ stream = StreamOf(kind, 2)
          /\ decode = c

\* jpeg_start_output for the scan that was read
StartOutputAfterScans ==
  /\ ~cinfo.output_active
  /\ hist.call = ""
  /\ Becomes(start_output_pass(
       [ BeginCall(State, "start_output_pass", 0) EXCEPT
           !.cinfo.output_scan_number = cinfo.input_scan_number,
           !.cinfo.output_active = TRUE,
           !.hist.pass_after_eoi = TRUE ]))

NextSmoothing == StartOutputAfterScans

SpecSmoothing == InitSmoothing /\ [][NextSmoothing]_vars

----------------------------------------------------------------------------
(* The decode as its driver runs it (jdapistd.c): an output pass is left   *)
(* only when the producer has exhausted the image, and the data source     *)
(* runs dry finitely often, so that a call with enough input for the whole *)
(* call is made again and again: of the multi-pass consumer while there is *)
(* input left, and of the producer while an output pass is running.        *)

ConsumeCan ==
  /\ Running
  /\ coef.coef_arrays
  /\ ~cinfo.inputctl.eoi_reached

ConsumeReady ==
  /\ ConsumeCan
  /\ Becomes(consume_input(BeginCall(State, "consume_input", NoSuspension)))

ProduceReady ==
  /\ CanOutput
  /\ Becomes(
       CASE coef.decompress_data = "decompress_onepass" ->
              decompress_onepass(BeginCall(State, "decompress_onepass", NoSuspension))
         [] coef.decompress_data = "decompress_data" ->
              decompress_data(BeginCall(State, "decompress_data", NoSuspension))
         [] OTHER ->
              decompress_smooth_data(
                BeginCall(State, "decompress_smooth_data", NoSuspension)))

FinishOutputDone ==
  /\ cinfo.output_iMCU_row = cinfo.total_iMCU_rows
  /\ FinishOutput

NextProgress ==
  \/ ConsumeInput
  \/ StartOutput
  \/ DecompressOnepass
  \/ DecompressData
  \/ DecompressSmoothData
  \/ FinishOutputDone

(* Weak fairness of ConsumeReady and of ProduceReady, that is              *)
(* WF_vars(ConsumeReady) /\ WF_vars(ProduceReady), written out: a call     *)
(* with enough input can be made, and changes the state, exactly when      *)
(* ConsumeCan, respectively CanOutput, holds.                              *)
SpecProgress ==
  /\ Init
  /\ [][NextProgress]_vars
  /\ ( []<>(~ConsumeCan) \/ []<><<ConsumeReady>>_vars )
  /\ ( []<>(~CanOutput) \/ []<><<ProduceReady>>_vars )

----------------------------------------------------------------------------
(* Properties.                                                             *)

Completed == {"JPEG_ROW_COMPLETED", "JPEG_SCAN_COMPLETED"}
LastOf(seq) == seq[Len(seq)]

(* The reference decode: the same file and parameters, a data source that  *)
(* never runs dry.  All input is read before the output pass starts when   *)
(* there is a full buffer; a single pass reads the scan header only.       *)
RECURSIVE RefInput(_)
RefInput(s) ==
  IF s.cinfo.inputctl.eoi_reached THEN s ELSE RefInput(consume_input(s))

RefStart(c) ==
  LET s0 == [ Construct(c) EXCEPT !.hist.avail = NoSuspension ]
      s1 == IF c.full THEN RefInput(s0) ELSE consume_input(s0)
  IN start_output_pass(
       [ s1 EXCEPT !.cinfo.output_scan_number = s1.cinfo.input_scan_number ])

\* one call of coef->decompress_data with a fresh call history
RefCall(s) ==
  LET b == BeginCall(s, s.coef.decompress_data, NoSuspension)
  IN CASE s.coef.decompress_data = "decompress_onepass" -> decompress_onepass(b)
       [] s.coef.decompress_data = "decompress_data" -> decompress_data(b)
       [] OTHER -> decompress_smooth_data(b)

RECURSIVE RefRows(_, _)
RefRows(s, k) == IF k = 0 THEN s ELSE RefRows(RefCall(s), k - 1)

\* the reference decode just after it produced row-group r
Reference(c, r) == RefRows(RefStart(c), r + 1)

(* C1: suspensions at arbitrary MCU boundaries do not change the output.   *)
(* When decompress_onepass, or decompress_data in a pass that displays the *)
(* last scan, completes row-group r, every block the suspension-free       *)
(* decode of the same file produced for row-group r is in the output       *)
(* buffer with the same samples.                                           *)
C1_SuspensionTransparent ==
  ( /\ hist.call \in {"decompress_onepass", "decompress_data"}
    /\ hist.ret \in Completed
    /\ cinfo.output_scan_number = Len(stream) )
  => LET ref == Reference(decode, cinfo.output_iMCU_row - 1)
     IN /\ ref.cinfo.output_iMCU_row = cinfo.output_iMCU_row
        /\ ref.hist.idct # <<>>
        /\ \A j \in 1..Len(ref.hist.idct) :
              LET e == ref.hist.idct[j]
              IN output_buf[e.ci][e.out_row][e.col]
                   = ref.output_buf[e.ci][e.out_row][e.col]

\* a row-group completed by a call whose forced consume_data resumed mid-row
C1_Witness ==
  /\ hist.call = "decompress_data"
  /\ hist.ret \in Completed
  /\ cinfo.output_scan_number = Len(stream)
  /\ hist.decodes # <<>>
  /\ hist.decodes[1].col > 0
  /\ hist.decodes[1].ok

(* C2: a failed decode_mcu at (r, y, c) makes the call return SUSPENDED    *)
(* with MCU_vert_offset = y, MCU_ctr = c and the row-group index still r;  *)
(* the next call that decodes starts with the same MCU at (r, y, c); no    *)
(* MCU is decoded successfully twice, and decompress_onepass transforms    *)
(* only blocks of MCUs decoded in the same call, each once.                *)
Failed(h) == h.decodes # <<>> /\ ~LastOf(h.decodes).ok

C2_Saved ==
  Failed(hist) =>
    LET a == LastOf(hist.decodes)
    IN /\ hist.ret = "JPEG_SUSPENDED"
       /\ coef.MCU_vert_offset = a.yoffset
       /\ coef.MCU_ctr = a.col
       /\ cinfo.input_iMCU_row = a.iMCU_row
       /\ cinfo.input_scan_number = a.sn

C2_Retry ==
  (Failed(hist) /\ hist'.decodes # <<>>) =>
    LET a == LastOf(hist.decodes)
        b == hist'.decodes[1]
    IN /\ b.sn = a.sn /\ b.iMCU_row = a.iMCU_row
       /\ b.yoffset = a.yoffset /\ b.col = a.col
       /\ b.m = a.m

C2_Once ==
  /\ \A i, j \in 1..Len(hist.decoded) :
        LET a == hist.decoded[i]
            b == hist.decoded[j]
        IN i # j =>
             /\ <<a.sn, a.iMCU_row, a.yoffset, a.col>>
                  # <<b.sn, b.iMCU_row, b.yoffset, b.col>>
             /\ <<a.sn, a.m>> # <<b.sn, b.m>>
  /\ hist.call = "decompress_onepass" =>
        /\ \A i, j \in 1..Len(hist.idct) :
              i # j => <<hist.idct[i].ci, hist.idct[i].row, hist.idct[i].col>>
                        # <<hist.idct[j].ci, hist.idct[j].row, hist.idct[j].col>>
        /\ \A i \in 1..Len(hist.idct) :
              \E k \in 1..Len(hist.decodes) :
                \E x \in DOMAIN cinfo.cur_comp_info :
                  LET e == hist.idct[i]
                      a == hist.decodes[k]
                      compptr == cinfo.cur_comp_info[x]
                  IN /\ a.ok
                     /\ compptr.component_index = e.ci
                     /\ e.col \div compptr.MCU_width = a.col
                     /\ e.row \in
                          (a.iMCU_row * compptr.v_samp_factor + a.yoffset)
                          .. (a.iMCU_row * compptr.v_samp_factor + a.yoffset
                                + compptr.MCU_height - 1)

C2_ResumeAtCursor == [][C2_Saved' /\ C2_Retry /\ C2_Once']_vars

\* a call that resumed, and decoded, at a cursor inside an MCU row
C2_Witness ==
  /\ hist.call = "decompress_onepass"
  /\ hist.decodes # <<>>
  /\ hist.decodes[1].col > 0
  /\ hist.decodes[1].ok
  /\ Len(hist.decoded) > Len(hist.decodes)

(* C3: every read access decompress_data makes to the coefficient store    *)
(* happens when input_scan_number > output_scan_number, or the two are     *)
(* equal and input_iMCU_row > output_iMCU_row.                             *)
C3_ReadAfterWrite ==
  hist.call = "decompress_data" =>
    \A i \in 1..Len(hist.access) :
      LET a == hist.access[i]
      IN ~a.writable =>
           \/ a.input_scan_number > a.output_scan_number
           \/ /\ a.input_scan_number = a.output_scan_number
              /\ a.input_iMCU_row > a.output_iMCU_row

\* a read that followed forced input in the scan being displayed
C3_Witness ==
  /\ hist.call = "decompress_data"
  /\ hist.decodes # <<>>
  /\ \E i \in 1..Len(hist.access) :
        LET a == hist.access[i]
        IN /\ ~a.writable
           /\ a.input_scan_number = a.output_scan_number
           /\ a.input_iMCU_row = a.output_iMCU_row + 1

(* C4 as stated: in multi-pass mode the input position (scan, row-group)  *)
(* is never behind the output position, in any state between calls.        *)
NotBehind ==
  \/ cinfo.input_scan_number > cinfo.output_scan_number
  \/ /\ cinfo.input_scan_number = cinfo.output_scan_number
     /\ cinfo.input_iMCU_row >= cinfo.output_iMCU_row

C4_AsStated == coef.coef_arrays => NotBehind

(* C4, amended: in multi-pass mode the input position is not behind the    *)
(* output position in every state between calls in which the scan being    *)
(* displayed has begun to be read (input_scan_number >=                    *)
(* output_scan_number) or the output pass has completed a row-group.       *)
C4_InputNotBehind ==
  ( /\ coef.coef_arrays
    /\ \/ cinfo.input_scan_number >= cinfo.output_scan_number
       \/ cinfo.output_iMCU_row > 0 )
  => NotBehind

\* a producer call completed a row-group of the scan the input is still in
C4_Witness ==
  /\ coef.coef_arrays
  /\ hist.call \in {"decompress_data", "decompress_smooth_data"}
  /\ hist.ret = "JPEG_ROW_COMPLETED"
  /\ cinfo.input_scan_number = cinfo.output_scan_number
  /\ cinfo.inputctl.in_scan
  /\ hist.decodes # <<>>

(* C5: when a consume_input call forced by decompress_data or              *)
(* decompress_smooth_data returns SUSPENDED, the producer returns          *)
(* SUSPENDED, makes no inverse_DCT call, leaves the output buffer and      *)
(* output_iMCU_row as they were; a producer call that completes advances   *)
(* output_iMCU_row by one and transforms blocks of that row-group only,    *)
(* each once.                                                              *)
Producers == {"decompress_data", "decompress_smooth_data"}

C5_Propagates ==
  ( /\ hist'.call \in Producers
    /\ \E i \in 1..Len(hist'.consumed) : hist'.consumed[i] = "JPEG_SUSPENDED" )
  => /\ hist'.ret = "JPEG_SUSPENDED"
     /\ hist'.idct = <<>>
     /\ output_buf' = output_buf
     /\ cinfo'.output_iMCU_row = cinfo.output_iMCU_row

C5_Once ==
  (hist'.call \in Producers /\ hist'.ret \in Completed)
  => /\ cinfo'.output_iMCU_row = cinfo.output_iMCU_row + 1
     /\ hist'.idct # <<>>
     /\ \A i \in 1..Len(hist'.idct) :
           LET e == hist'.idct[i]
               v == cinfo.comp_info[e.ci].v_samp_factor
           IN /\ e.row \in (cinfo.output_iMCU_row * v)
                             .. (cinfo.output_iMCU_row * v + v - 1)
              /\ \A j \in 1..Len(hist'.idct) :
                    j # i => <<hist'.idct[j].ci, hist'.idct[j].row, hist'.idct[j].col>>
                              # <<e.ci, e.row, e.col>>

C5_SuspendedProducer == [][C5_Propagates /\ C5_Once]_vars

\* a producer suspended after forced input made some progress
C5_Witness ==
  /\ hist.call \in Producers
  /\ hist.ret = "JPEG_SUSPENDED"
  /\ Len(hist.decodes) > 1
  /\ cinfo.output_iMCU_row > 0

(* C6: while a scan is being read, MCU_rows_per_iMCU_row is 1 if the scan  *)
(* interleaves several components; for a single-component scan it is the   *)
(* component's v_samp_factor, except in the last row-group, where it is    *)
(* height_in_blocks mod v_samp_factor, or v_samp_factor if that is 0.      *)
C6_RowGroupHeight ==
  cinfo.inputctl.in_scan =>
    coef.MCU_rows_per_iMCU_row =
      IF cinfo.comps_in_scan > 1 THEN 1
      ELSE LET compptr == cinfo.cur_comp_info[0]
               left == compptr.height_in_blocks % compptr.v_samp_factor
           IN IF cinfo.input_iMCU_row < cinfo.total_iMCU_rows - 1
              THEN compptr.v_samp_factor
              ELSE IF left = 0 THEN compptr.v_samp_factor ELSE left

\* the last row-group of a single-component scan, clipped, after a completed one
C6_Witness ==
  /\ cinfo.inputctl.in_scan
  /\ cinfo.comps_in_scan = 1
  /\ cinfo.input_iMCU_row > 0
  /\ cinfo.input_iMCU_row = cinfo.total_iMCU_rows - 1
  /\ coef.MCU_rows_per_iMCU_row < cinfo.cur_comp_info[0].v_samp_factor
  /\ hist.ret = "JPEG_ROW_COMPLETED"

(* C7: a completed call of decompress_data or decompress_smooth_data has   *)
(* transformed, for every needed component, exactly v_samp_factor block    *)
(* rows of the row-group, or in the last row-group height_in_blocks mod    *)
(* v_samp_factor of them (v_samp_factor if that is 0); no block row at or  *)
(* beyond height_in_blocks is transformed.                                 *)
C7_BlockRowsClipped ==
  (hist.call \in Producers /\ hist.ret \in Completed) =>
    \A ci \in DOMAIN cinfo.comp_info :
      LET compptr == cinfo.comp_info[ci]
          r == cinfo.output_iMCU_row - 1
          left == compptr.height_in_blocks % compptr.v_samp_factor
          n == IF r < cinfo.total_iMCU_rows - 1 THEN compptr.v_samp_factor
               ELSE IF left = 0 THEN compptr.v_samp_factor ELSE left
          rows == {hist.idct[i].row : i \in {j \in 1..Len(hist.idct) :
                                               hist.idct[j].ci = ci}}
      IN /\ compptr.component_needed =>
              rows = (r * compptr.v_samp_factor) .. (r * compptr.v_samp_factor + n - 1)
         /\ ~compptr.component_needed => rows = {}
         /\ \A row \in rows : row < compptr.height_in_blocks

\* the smoothing producer completed a clipped last row-group
C7_Witness ==
  /\ hist.call = "decompress_smooth_data"
  /\ hist.ret = "JPEG_SCAN_COMPLETED"
  /\ \E ci \in DOMAIN cinfo.comp_info :
        /\ cinfo.comp_info[ci].component_needed
        /\ cinfo.comp_info[ci].height_in_blocks
              % cinfo.comp_info[ci].v_samp_factor # 0
        /\ \E i \in 1..Len(hist.idct) : hist.idct[i].ci = ci

(* C8: when a component's quantization table has a zero at the DC position *)
(* or at natural positions 1, 8, 16, 9, 2, smoothing_ok answers FALSE, the *)
(* installed producer is not decompress_smooth_data, and no estimate has   *)
(* divided by zero.                                                        *)
HasZero(q) ==
  /\ q # NoTable
  /\ \E k \in {0, 1, 8, 16, 9, 2} : q[k] = 0

C8_NoSmoothingOnZero ==
  /\ ~hist.zero_divide
  /\ (\E ci \in DOMAIN cinfo.comp_info : HasZero(cinfo.comp_info[ci].quant_table))
       => /\ ~smoothing_ok(State).ok
          /\ coef.decompress_data # "decompress_smooth_data"

\* an output pass of a progressive file with a zero quantizer, smoothing wanted
\* and every other condition of smoothing_ok satisfied
C8_Witness ==
  /\ \E ci \in DOMAIN cinfo.comp_info : HasZero(cinfo.comp_info[ci].quant_table)
  /\ hist.call = "decompress_data"
  /\ hist.ret \in Completed
  /\ cinfo.progressive_mode
  /\ cinfo.do_block_smoothing
  /\ \A ci \in DOMAIN cinfo.comp_info :
        /\ cinfo.comp_info[ci].quant_table # NoTable
        /\ cinfo.coef_bits[ci][0] >= 0
  /\ \E ci \in DOMAIN cinfo.comp_info : cinfo.coef_bits[ci][1] # 0

(* C9: for every block decompress_smooth_data hands to the inverse DCT and *)
(* each of the five estimated positions, the coefficient handed over is    *)
(* the stored one when the stored one is non-zero or the latched coef_bits *)
(* entry is 0; the coefficients at all other positions are the stored      *)
(* ones.                                                                   *)
C9_EstimateOnlyUnknownZero ==
  hist.call = "decompress_smooth_data" =>
    \A i \in 1..Len(hist.idct) :
      LET e == hist.idct[i]
      IN /\ \A z \in 1..5 :
              (e.stored[NaturalOrder(z)] # 0 \/ e.bits[z] = 0)
                => e.blk[NaturalOrder(z)] = e.stored[NaturalOrder(z)]
         /\ \A k \in Pos \ {NaturalOrder(z) : z \in 1..5} :
              e.blk[k] = e.stored[k]

\* a block with a kept non-zero coefficient whose coef_bits entry is non-zero
\* and an estimate applied at another position
C9_Witness ==
  /\ hist.call = "decompress_smooth_data"
  /\ \E i \in 1..Len(hist.idct) :
        LET e == hist.idct[i]
        IN /\ \E z \in 1..5 : e.stored[NaturalOrder(z)] # 0 /\ e.bits[z] # 0
           /\ \E z \in 1..5 : e.blk[NaturalOrder(z)] # e.stored[NaturalOrder(z)]

\* a block with a zero coefficient kept because its coef_bits entry is 0
C9_KeptZero ==
  /\ hist.call = "decompress_smooth_data"
  /\ \E i \in 1..Len(hist.idct) :
        LET e == hist.idct[i]
        IN \E z \in 1..5 : e.stored[NaturalOrder(z)] = 0 /\ e.bits[z] = 0

(* C10: after a call of decompress_smooth_data every block of the          *)
(* coefficient store holds what the consumer wrote: the sum of the         *)
(* coefficients of the MCUs decoded into it so far.                        *)
RECURSIVE ConsumerWrote(_, _, _, _, _)
ConsumerWrote(ci, row, col, k, i) ==
  IF i > Len(hist.decoded) THEN 0
  ELSE LET e == hist.decoded[i]
           blocks == StreamMCU(per_scan_setup(cinfo, stream[e.sn]), e.m)
           covered == \E b \in DOMAIN blocks :
                        /\ blocks[b].ci = ci /\ blocks[b].row = row
                        /\ blocks[b].col = col
       IN (IF covered THEN Delta(e.sn, ci, row, col, k) ELSE 0)
            + ConsumerWrote(ci, row, col, k, i + 1)

C10_StoreUnchanged ==
  hist.call = "decompress_smooth_data" =>
    \A ci \in DOMAIN whole_image :
      \A row \in DOMAIN whole_image[ci] :
        \A col \in DOMAIN whole_image[ci][row] :
          \A k \in Pos :
            whole_image[ci][row][col][k] = ConsumerWrote(ci, row, col, k, 1)

\* a smoothing call that applied an estimate
C10_Witness ==
  /\ hist.call = "decompress_smooth_data"
  /\ hist.ret \in Completed
  /\ \E i \in 1..Len(hist.idct) : hist.idct[i].blk # hist.idct[i].stored
  /\ cinfo.output_iMCU_row > 1

(* C11: for a one-component one-scan sequential file the two paths agree. *)
(* When decompress_onepass or decompress_data completes row-group r, the   *)
(* blocks it transformed are blocks the other path (full buffering for a   *)
(* single pass, a single pass for full buffering) transforms for row-group *)
(* r, at the same component, block row, output row and column, and every   *)
(* block the other path produced for row-group r is in the output buffer   *)
(* with the same samples.                                                  *)
OtherPath(c) == [ c EXCEPT !.full = ~@ ]
Cell(e) == [ ci |-> e.ci, row |-> e.row, out_row |-> e.out_row, col |-> e.col ]
Cells(idct) == { Cell(idct[j]) : j \in 1..Len(idct) }

C11_OnepassEqualsFullBuffer ==
  ( /\ decode.kind = "baseline" /\ decode.n = 1 /\ decode.multiscan
    /\ hist.call \in {"decompress_onepass", "decompress_data"}
    /\ hist.ret \in Completed )
  => \A ref \in {Reference(OtherPath(decode), cinfo.output_iMCU_row - 1)} :
        /\ ref.coef.decompress_data # coef.decompress_data
        /\ ref.cinfo.output_iMCU_row = cinfo.output_iMCU_row
        /\ ref.hist.idct # <<>>
        /\ Cells(hist.idct) \subseteq Cells(ref.hist.idct)
        /\ \A j \in 1..Len(ref.hist.idct) :
              \A e \in {ref.hist.idct[j]} :
                 output_buf[e.ci][e.out_row][e.col]
                   = ref.output_buf[e.ci][e.out_row][e.col]

\* the single pass finished the last row-group of a 2 x 2 block image in a
\* call that resumed in the middle of the block row
C11_Witness ==
  /\ decode.kind = "baseline" /\ decode.n = 1 /\ ~decode.full
  /\ decode.Wb = 2 /\ decode.Hb = 2 /\ decode.samp0 = <<1, 1>>
  /\ hist.call = "decompress_onepass"
  /\ hist.ret = "JPEG_SCAN_COMPLETED"
  /\ hist.decodes # <<>>
  /\ hist.decodes[1].col > 0

\* the height start_iMCU_row gives row-group row of the current scan
RowGroupRows(ci0, row) ==
  IF ci0.comps_in_scan > 1 THEN 1
  ELSE LET compptr == ci0.cur_comp_info[0]
           left == compptr.height_in_blocks % compptr.v_samp_factor
       IN IF row < ci0.total_iMCU_rows - 1 THEN compptr.v_samp_factor
          ELSE IF left = 0 THEN compptr.v_samp_factor ELSE left

(* C12: a call of decompress_onepass that does not suspend ends on the     *)
(* last MCU of the row-group it was called in and moves both row-group     *)
(* counters on by one.  It returns ROW_COMPLETED exactly when the new      *)
(* index is below total_iMCU_rows, then with MCU_ctr = 0, MCU_vert_offset  *)
(* = 0, the height of the new row-group and no finish_input_pass; it       *)
(* returns SCAN_COMPLETED exactly when the row-group was the last, then    *)
(* with finish_input_pass called once.                                     *)
C12_Step ==
  ( hist'.call = "decompress_onepass" /\ hist'.ret # "JPEG_SUSPENDED" )
  => /\ cinfo'.input_iMCU_row = cinfo.input_iMCU_row + 1
     /\ cinfo'.output_iMCU_row = cinfo.output_iMCU_row + 1
     /\ hist'.decodes # <<>>
     /\ LastOf(hist'.decodes).ok
     /\ LastOf(hist'.decodes).iMCU_row = cinfo.input_iMCU_row
     /\ LastOf(hist'.decodes).yoffset = coef.MCU_rows_per_iMCU_row - 1
     /\ LastOf(hist'.decodes).col = cinfo.MCUs_per_row - 1
     /\ hist'.ret \in Completed
     /\ hist'.ret = "JPEG_ROW_COMPLETED"
           <=> cinfo'.input_iMCU_row < cinfo.total_iMCU_rows
     /\ hist'.ret = "JPEG_SCAN_COMPLETED"
           <=> cinfo.input_iMCU_row = cinfo.total_iMCU_rows - 1
     /\ hist'.ret = "JPEG_ROW_COMPLETED" =>
           /\ coef'.MCU_ctr = 0
           /\ coef'.MCU_vert_offset = 0
           /\ coef'.MCU_rows_per_iMCU_row
                = RowGroupRows(cinfo', cinfo'.input_iMCU_row)
           /\ hist'.finish_input_pass = 0
           /\ cinfo'.inputctl.in_scan
     /\ hist'.ret = "JPEG_SCAN_COMPLETED" =>
           /\ hist'.finish_input_pass = 1
           /\ ~cinfo'.inputctl.in_scan

C12_OnepassOneRowGroup == [][C12_Step]_vars

\* the last row-group of three, finished by a call that resumed mid-row
C12_Witness ==
  /\ hist.call = "decompress_onepass"
  /\ hist.ret = "JPEG_SCAN_COMPLETED"
  /\ hist.finish_input_pass = 1
  /\ cinfo.total_iMCU_rows = 3
  /\ cinfo.input_iMCU_row = 3
  /\ hist.decodes[1].col > 0

(* C13: a call of consume_data that does not suspend moves input_iMCU_row  *)
(* on by one.  It returns ROW_COMPLETED, after start_iMCU_row, exactly     *)
(* when the new index is below total_iMCU_rows, and SCAN_COMPLETED with    *)
(* one finish_input_pass exactly when the row-group stored was the last of *)
(* the scan; in every call of the library finish_input_pass has been       *)
(* called once for each SCAN_COMPLETED that consume_data returned.         *)
ScansCompleted(h) ==
  Cardinality({ j \in 1..Len(h.consumed) : h.consumed[j] = "JPEG_SCAN_COMPLETED" })

C13_Step ==
  /\ coef.coef_arrays => hist'.finish_input_pass = ScansCompleted(hist')
  /\ ( /\ hist'.call = "consume_input"
       /\ cinfo.inputctl.in_scan
       /\ coef.consume_data = "consume_data"
       /\ hist'.ret # "JPEG_SUSPENDED" )
     => /\ cinfo'.input_iMCU_row = cinfo.input_iMCU_row + 1
        /\ hist'.decodes # <<>>
        /\ LastOf(hist'.decodes).ok
        /\ LastOf(hist'.decodes).iMCU_row = cinfo.input_iMCU_row
        /\ LastOf(hist'.decodes).yoffset = coef.MCU_rows_per_iMCU_row - 1
        /\ LastOf(hist'.decodes).col = cinfo.MCUs_per_row - 1
        /\ hist'.ret \in Completed
        /\ hist'.ret = "JPEG_ROW_COMPLETED"
              <=> cinfo'.input_iMCU_row < cinfo.total_iMCU_rows
        /\ hist'.ret = "JPEG_SCAN_COMPLETED"
              <=> cinfo.input_iMCU_row = cinfo.total_iMCU_rows - 1
        /\ hist'.ret = "JPEG_ROW_COMPLETED" =>
              /\ coef'.MCU_ctr = 0
              /\ coef'.MCU_vert_offset = 0
              /\ coef'.MCU_rows_per_iMCU_row
                   = RowGroupRows(cinfo', cinfo'.input_iMCU_row)
              /\ hist'.finish_input_pass = 0
              /\ cinfo'.inputctl.in_scan
        /\ hist'.ret = "JPEG_SCAN_COMPLETED" =>
              /\ hist'.finish_input_pass = 1
              /\ ~cinfo'.inputctl.in_scan

C13_ConsumeOneRowGroup == [][C13_Step]_vars

\* the last row-group of the second scan stored by a call that resumed mid-row
C13_Witness ==
  /\ hist.call = "consume_input"
  /\ hist.ret = "JPEG_SCAN_COMPLETED"
  /\ hist.finish_input_pass = 1
  /\ cinfo.input_scan_number = 2
  /\ cinfo.input_iMCU_row = cinfo.total_iMCU_rows
  /\ cinfo.total_iMCU_rows > 1
  /\ hist.decodes[1].col > 0

(* C14: a library call that only consumes input (jpeg_consume_input,       *)
(* jpeg_finish_output) and runs consume_data calls no inverse DCT, leaves  *)
(* every output plane as it was and does not change output_iMCU_row.       *)
RanConsumeData(h) ==
  \E j \in 1..Len(h.consumed) : h.consumed[j] \in Completed \cup {"JPEG_SUSPENDED"}

C14_Step ==
  ( /\ hist'.call \in {"consume_input", "finish_output"}
    /\ coef.consume_data = "consume_data"
    /\ RanConsumeData(hist') )
  => /\ hist'.idct = <<>>
     /\ output_buf' = output_buf
     /\ cinfo'.output_iMCU_row = cinfo.output_iMCU_row

C14_ConsumeProducesNothing == [][C14_Step]_vars

\* a row-group stored while an output pass is under way with rows delivered
C14_Witness ==
  /\ hist.call = "consume_input"
  /\ coef.consume_data = "consume_data"
  /\ hist.ret = "JPEG_ROW_COMPLETED"
  /\ hist.decodes # <<>>
  /\ cinfo.output_active
  /\ cinfo.output_iMCU_row > 0
  /\ cinfo.output_iMCU_row < cinfo.total_iMCU_rows

(* C15: a call of decompress_data or decompress_smooth_data that does not  *)
(* suspend moves output_iMCU_row on by one and returns ROW_COMPLETED when  *)
(* the new value is below total_iMCU_rows and SCAN_COMPLETED otherwise; an *)
(* output pass starts at 0, so SCAN_COMPLETED comes with the               *)
(* total_iMCU_rows-th such call of the pass and not before.                *)
C15_Step ==
  /\ hist'.call = "start_output_pass" => cinfo'.output_iMCU_row = 0
  /\ ( hist'.call \in Producers /\ hist'.ret \in Completed )
     => /\ cinfo'.output_iMCU_row = cinfo.output_iMCU_row + 1
        /\ hist'.ret = "JPEG_ROW_COMPLETED"
              <=> cinfo'.output_iMCU_row < cinfo.total_iMCU_rows
        /\ hist'.ret = "JPEG_SCAN_COMPLETED"
              <=> cinfo'.output_iMCU_row = cinfo.total_iMCU_rows
  /\ hist'.call \in Producers =>
        hist'.ret \in Completed \cup {"JPEG_SUSPENDED", "NO_RETURN"}

C15_OutputOneRowGroup == [][C15_Step]_vars

\* the third and last row-group of a smoothed pass
C15_Witness ==
  /\ hist.call = "decompress_smooth_data"
  /\ hist.ret = "JPEG_SCAN_COMPLETED"
  /\ cinfo.total_iMCU_rows = 3
  /\ cinfo.output_iMCU_row = 3

(* C16: start_input_pass, applied to any state the decoder reaches once a *)
(* scan has been set up, a suspension in the middle of a row-group         *)
(* included, gives input_iMCU_row = 0, MCU_ctr = 0, MCU_vert_offset = 0    *)
(* and the height of row-group 0 of the scan; and so the state is when     *)
(* consume_markers has called it at the start of a scan.                   *)
InputCursorAtStart(s) ==
  /\ s.cinfo.input_iMCU_row = 0
  /\ s.coef.MCU_ctr = 0
  /\ s.coef.MCU_vert_offset = 0
  /\ s.coef.MCU_rows_per_iMCU_row = RowGroupRows(s.cinfo, 0)

C16_StartInputPass ==
  /\ cinfo.comps_in_scan >= 1 => InputCursorAtStart(start_input_pass(State))
  /\ hist.call = "consume_input" /\ hist.ret = "JPEG_REACHED_SOS"
       => InputCursorAtStart(State)

\* a call suspended in the middle of the clipped last row-group, from where
\* start_input_pass goes back to a taller row-group 0
C16_Witness ==
  /\ hist.ret = "JPEG_SUSPENDED"
  /\ cinfo.inputctl.in_scan
  /\ coef.MCU_ctr > 0
  /\ cinfo.input_iMCU_row > 0
  /\ cinfo.input_iMCU_row = cinfo.total_iMCU_rows - 1
  /\ coef.MCU_rows_per_iMCU_row < RowGroupRows(cinfo, 0)
  /\ InputCursorAtStart(start_input_pass(State))

(* The conditions of block smoothing: a progressive file with coef_bits,   *)
(* for every component a quantization table with non-zero DC and first     *)
(* five AC entries and a DC coefficient that has been seen, and for some   *)
(* component one of the first five AC coefficients not fully decoded.      *)
SmoothingPreconditions(ci0) ==
  /\ ci0.progressive_mode
  /\ ci0.coef_bits # NoBits
  /\ \A ci \in 0..(ci0.num_components - 1) :
        /\ ci0.comp_info[ci].quant_table # NoTable
        /\ \A p \in {0, Q01_POS, Q10_POS, Q20_POS, Q11_POS, Q02_POS} :
              ci0.comp_info[ci].quant_table[p] # 0
        /\ ci0.coef_bits[ci][0] >= 0
  /\ \E ci \in 0..(ci0.num_components - 1) :
        \E coefi \in 1..5 : ci0.coef_bits[ci][coefi] # 0

(* C17: start_output_pass sets output_iMCU_row to 0.  With a coefficient   *)
(* store it installs decompress_smooth_data when block smoothing was asked *)
(* for and its conditions hold, and decompress_data otherwise; without a   *)
(* store it leaves decompress_onepass installed.                           *)
C17_Step ==
  hist'.call = "start_output_pass"
  => /\ cinfo'.output_iMCU_row = 0
     /\ coef.coef_arrays =>
           coef'.decompress_data =
             IF cinfo.do_block_smoothing /\ SmoothingPreconditions(cinfo)
             THEN "decompress_smooth_data" ELSE "decompress_data"
     /\ ~coef.coef_arrays =>
           /\ coef'.decompress_data = coef.decompress_data
           /\ coef'.decompress_data = "decompress_onepass"

C17_StartOutputPass == [][C17_Step]_vars

\* a later output pass starts with the smoothing producer
C17_Witness ==
  /\ hist.call = "start_output_pass"
  /\ coef.decompress_data = "decompress_smooth_data"
  /\ cinfo.output_scan_number >= 2
  /\ cinfo.output_iMCU_row = 0
  /\ cinfo.input_iMCU_row > 0

(* C19: whenever a completed call of decompress_smooth_data reads the      *)
(* coefficient store, the end of the image has been reached, or the input  *)
(* is in a later scan than the one displayed, or it is in the same scan    *)
(* and input_iMCU_row > output_iMCU_row + delta, delta being 1 in a scan   *)
(* with Ss = 0 and 0 otherwise.                                            *)
SoftWait(a) ==
  \/ a.eoi_reached
  \/ a.input_scan_number > a.output_scan_number
  \/ /\ a.input_scan_number = a.output_scan_number
     /\ a.input_iMCU_row > a.output_iMCU_row + (IF a.Ss = 0 THEN 1 ELSE 0)

C19_SmoothWaitsForInput ==
  ( hist.call = "decompress_smooth_data" /\ hist.ret \in Completed )
  => /\ \E j \in 1..Len(hist.access) : ~hist.access[j].writable
     /\ \A j \in 1..Len(hist.access) :
           ~hist.access[j].writable => SoftWait(hist.access[j])

\* a DC scan displayed while it is read: the call forced input until the
\* input was two row-groups ahead
C19_Witness ==
  /\ hist.call = "decompress_smooth_data"
  /\ hist.ret \in Completed
  /\ hist.decodes # <<>>
  /\ \E j \in 1..Len(hist.access) :
        /\ ~hist.access[j].writable
        /\ hist.access[j].Ss = 0
        /\ ~hist.access[j].eoi_reached
        /\ hist.access[j].input_scan_number = hist.access[j].output_scan_number
        /\ hist.access[j].input_iMCU_row = hist.access[j].output_iMCU_row + 2

(* C18: smoothing_ok is true, and start_output_pass installs               *)
(* decompress_smooth_data, only when the file is progressive with          *)
(* coef_bits, every component has a table whose DC and first five AC       *)
(* entries are non-zero and has coef_bits[0] >= 0, and some component has  *)
(* one of its first five AC coef_bits non-zero; when the five AC entries   *)
(* of every component are 0 the test is false and decompress_data is       *)
(* installed.                                                              *)
ACFullyDecoded(ci0) ==
  /\ ci0.coef_bits # NoBits
  /\ \A ci \in 0..(ci0.num_components - 1) :
        \A coefi \in 1..5 : ci0.coef_bits[ci][coefi] = 0

C18_SmoothingOk ==
  /\ smoothing_ok(State).ok => SmoothingPreconditions(cinfo)
  /\ ACFullyDecoded(cinfo) => ~smoothing_ok(State).ok
  /\ hist.call = "start_output_pass" =>
        /\ coef.decompress_data = "decompress_smooth_data"
              => SmoothingPreconditions(cinfo)
        /\ ACFullyDecoded(cinfo) => coef.decompress_data = "decompress_data"

\* block smoothing asked for, good tables, every DC seen and every AC entry
\* in full: the plain producer is installed
C18_Witness ==
  /\ hist.call = "start_output_pass"
  /\ cinfo.do_block_smoothing
  /\ cinfo.progressive_mode
  /\ ACFullyDecoded(cinfo)
  /\ \A ci \in 0..(cinfo.num_components - 1) :
        /\ cinfo.comp_info[ci].quant_table # NoTable
        /\ ~HasZero(cinfo.comp_info[ci].quant_table)
        /\ cinfo.coef_bits[ci][0] >= 0
  /\ coef.decompress_data = "decompress_data"

(* C20: a controller asked for a full buffer in a build without            *)
(* D_MULTISCAN_FILES_SUPPORTED has raised JERR_NOT_COMPILED; neither       *)
(* consume_data nor decompress_data has been installed and no entry point  *)
(* has run.                                                                *)
C20_NotCompiled ==
  ( decode.full /\ ~decode.multiscan )
  => /\ cinfo.msg_code = "JERR_NOT_COMPILED"
     /\ coef.consume_data = NotInstalled
     /\ coef.decompress_data = NotInstalled
     /\ hist.call = ""

\* the controller of such a build after the failed initialisation
C20_Witness ==
  /\ decode.full
  /\ ~decode.multiscan
  /\ ~cinfo.D_MULTISCAN_FILES_SUPPORTED
  /\ cinfo.msg_code = "JERR_NOT_COMPILED"
  /\ coef.decompress_data = NotInstalled

(* C21: the successful decode_mcu calls of the scan being read, over all  *)
(* calls so far, start at (row-group 0, MCU row 0, column 0); each next    *)
(* one is at the raster successor of the one before (next column, else     *)
(* column 0 of the next MCU row of the row-group, else the start of the    *)
(* next row-group) and reads the next MCU of the file; when the scan is    *)
(* finished the last one was at the last position of the scan.             *)
ScanDecodes ==
  LET InScan(a) == a.sn = cinfo.input_scan_number
  IN SelectSeq(hist.decoded, InScan)

Position(a) == <<a.iMCU_row, a.yoffset, a.col>>

NextPosition(a) ==
  IF a.col + 1 < cinfo.MCUs_per_row THEN <<a.iMCU_row, a.yoffset, a.col + 1>>
  ELSE IF a.yoffset + 1 < RowGroupRows(cinfo, a.iMCU_row)
       THEN <<a.iMCU_row, a.yoffset + 1, 0>>
       ELSE <<a.iMCU_row + 1, 0, 0>>

C21_RasterOrder ==
  cinfo.input_scan_number >= 1 =>
    \A d \in {ScanDecodes} :
       /\ d # <<>> => Position(d[1]) = <<0, 0, 0>>
       /\ \A j \in 1..Len(d) : d[j].m = j - 1
       /\ \A j \in 1..(Len(d) - 1) : Position(d[j + 1]) = NextPosition(d[j])
       /\ ~cinfo.inputctl.in_scan =>
             /\ d # <<>>
             /\ NextPosition(LastOf(d)) = <<cinfo.total_iMCU_rows, 0, 0>>

\* the second scan of a file, of row-groups two MCU rows high, read to its
\* end with a call that resumed in the middle of an MCU row
C21_Witness ==
  /\ cinfo.input_scan_number = 2
  /\ ~cinfo.inputctl.in_scan
  /\ hist.ret = "JPEG_SCAN_COMPLETED"
  /\ hist.decodes # <<>>
  /\ hist.decodes[1].col > 0
  /\ \E j \in 1..Len(ScanDecodes) : ScanDecodes[j].yoffset = 1
  /\ cinfo.total_iMCU_rows > 1

(* C22: a consume_data call changes only store blocks of the components of *)
(* the scan in block rows input_iMCU_row * v_samp_factor .. +              *)
(* v_samp_factor - 1, and asks for exactly these rows with write intent;   *)
(* the pointer list of the last MCU it handed to the entropy decoder has   *)
(* blocks_in_MCU entries, component after component, for each component    *)
(* the blocks at columns c * MCU_width .. + MCU_width - 1 of the rows      *)
(* yoffset .. yoffset + MCU_height - 1 of the row-group.                   *)
ScanComponent(ci0, ci) ==
  \E i \in 0..(ci0.comps_in_scan - 1) : ci0.cur_comp_info[i].component_index = ci

PointersOf(ci0, i, a) ==
  LET compptr == ci0.cur_comp_info[i]
  IN { StorePtr(compptr.component_index,
                a.iMCU_row * compptr.v_samp_factor + a.yoffset + dy,
                a.col * compptr.MCU_width + dx) :
         dy \in 0..(compptr.MCU_height - 1), dx \in 0..(compptr.MCU_width - 1) }

C22_Step ==
  ( /\ hist'.call = "consume_input"
    /\ cinfo.inputctl.in_scan
    /\ coef.consume_data = "consume_data" )
  => /\ \A ci \in DOMAIN whole_image :
          \A row \in DOMAIN whole_image[ci] :
             whole_image'[ci][row] # whole_image[ci][row] =>
               /\ ScanComponent(cinfo, ci)
               /\ row \in (cinfo.input_iMCU_row * cinfo.comp_info[ci].v_samp_factor)
                           ..((cinfo.input_iMCU_row + 1)
                                * cinfo.comp_info[ci].v_samp_factor - 1)
     /\ Len(hist'.access) = cinfo.comps_in_scan
     /\ \A i \in 0..(cinfo.comps_in_scan - 1) :
          \A a \in {hist'.access[i + 1]} :
             /\ a.writable
             /\ a.ci = cinfo.cur_comp_info[i].component_index
             /\ a.start_row = cinfo.input_iMCU_row * cinfo.cur_comp_info[i].v_samp_factor
             /\ a.num_rows = cinfo.cur_comp_info[i].v_samp_factor
     /\ hist'.decodes # <<>> =>
          \A a \in {LastOf(hist'.decodes)} :
             /\ Len(coef'.MCU_buffer) = cinfo.blocks_in_MCU
             /\ { coef'.MCU_buffer[b] : b \in 1..Len(coef'.MCU_buffer) }
                  = UNION { PointersOf(cinfo, i, a) : i \in 0..(cinfo.comps_in_scan - 1) }
             /\ Cardinality({ coef'.MCU_buffer[b] : b \in 1..Len(coef'.MCU_buffer) })
                  = cinfo.blocks_in_MCU
             /\ \A b1, b2 \in 1..Len(coef'.MCU_buffer) :
                  b1 < b2 =>
                    \/ coef'.MCU_buffer[b1].ci < coef'.MCU_buffer[b2].ci
                    \/ /\ coef'.MCU_buffer[b1].ci = coef'.MCU_buffer[b2].ci
                       /\ \/ coef'.MCU_buffer[b1].row < coef'.MCU_buffer[b2].row
                          \/ /\ coef'.MCU_buffer[b1].row = coef'.MCU_buffer[b2].row
                             /\ coef'.MCU_buffer[b1].col < coef'.MCU_buffer[b2].col

C22_ConsumeWritesRowGroup == [][C22_Step]_vars

\* the first row-group of a one-component scan, two MCU rows high, stored:
\* the last pointer list is that of its second MCU row
C22_Witness ==
  /\ hist.call = "consume_input"
  /\ coef.consume_data = "consume_data"
  /\ hist.ret = "JPEG_ROW_COMPLETED"
  /\ cinfo.comps_in_scan = 1
  /\ cinfo.input_iMCU_row = 1
  /\ LastOf(hist.decodes).yoffset = 1
  /\ LastOf(hist.decodes).col = 1
  /\ coef.MCU_buffer[1] = StorePtr(cinfo.cur_comp_info[0].component_index, 1, 1)
  /\ whole_image[coef.MCU_buffer[1].ci][1] # whole_image[coef.MCU_buffer[1].ci][2]

\* the coefficients the file holds for a block in scan sn
FileBlock(sn, ci, row, col) == [k \in Pos |-> Delta(sn, ci, row, col, k)]

(* C23: every block decompress_onepass hands to the inverse DCT holds the  *)
(* coefficients of the file for that block and nothing else, whether the   *)
(* MCU was decoded at the first attempt or after attempts that ran out of  *)
(* data and left part of an MCU in the scratch buffer.                     *)
C23_ScratchZeroed ==
  hist.call = "decompress_onepass" =>
    \A j \in 1..Len(hist.idct) :
       \A e \in {hist.idct[j]} :
          e.blk = FileBlock(cinfo.input_scan_number, e.ci, e.row, e.col)

\* the call before this one failed on an MCU of several blocks and left
\* data in the scratch buffer; this call decoded that MCU and went on
C23_Witness ==
  /\ hist.call = "decompress_onepass"
  /\ hist.ret \in Completed
  /\ cinfo.blocks_in_MCU > 1
  /\ hist.decodes[1].ok
  /\ hist.decodes[1].col > 0
  /\ Len(hist.idct) > 1

\* a suspended single-pass call has left part of an MCU in the scratch buffer
C23_DirtyScratch ==
  /\ hist.call = "decompress_onepass"
  /\ hist.ret = "JPEG_SUSPENDED"
  /\ coef.scratch[1] # ZeroBlock

(* C24: the blocks a call of decompress_onepass transforms are, each once, *)
(* the blocks of the MCUs it decoded that belong to a needed component and *)
(* lie inside the component (row < height_in_blocks, column <              *)
(* width_in_blocks); each is transformed to its place in the row-group     *)
(* with the coefficients the file holds for it.                            *)
InsideImage(ci0, p) ==
  /\ ci0.comp_info[p.ci].component_needed
  /\ p.row < ci0.comp_info[p.ci].height_in_blocks
  /\ p.col < ci0.comp_info[p.ci].width_in_blocks

DecodedBlocks(ci0, decodes) ==
  UNION { { [ ci |-> p.ci, row |-> p.row,
              out_row |-> p.row - decodes[j].iMCU_row
                                    * ci0.comp_info[p.ci].v_samp_factor,
              col |-> p.col ] :
              p \in { q \in { StreamMCU(ci0, decodes[j].m)[b] :
                                 b \in 1..ci0.blocks_in_MCU } :
                        InsideImage(ci0, q) } } :
          j \in { i \in 1..Len(decodes) : decodes[i].ok } }

C24_OnepassTransformsImageBlocks ==
  hist.call = "decompress_onepass" =>
    /\ Cells(hist.idct) = DecodedBlocks(cinfo, hist.decodes)
    /\ Len(hist.idct) = Cardinality(DecodedBlocks(cinfo, hist.decodes))
    /\ \A j \in 1..Len(hist.idct) :
          hist.idct[j].blk = FileBlock(cinfo.input_scan_number, hist.idct[j].ci,
                                       hist.idct[j].row, hist.idct[j].col)

\* the last row-group of an image whose MCUs hold a padding row of
\* component 0 there, component 0 not needed and component 1 transformed
C24_Witness ==
  /\ hist.call = "decompress_onepass"
  /\ hist.ret = "JPEG_SCAN_COMPLETED"
  /\ ~cinfo.comp_info[0].component_needed
  /\ cinfo.comps_in_scan = 2
  /\ cinfo.comp_info[0].v_samp_factor = 2
  /\ cinfo.comp_info[0].height_in_blocks % 2 = 1
  /\ hist.idct # <<>>
  /\ \A j \in 1..Len(hist.idct) : hist.idct[j].ci = 1

\* padding blocks of a needed component were decoded and not transformed
C24_PaddingSkipped ==
  /\ hist.call = "decompress_onepass"
  /\ hist.ret = "JPEG_SCAN_COMPLETED"
  /\ cinfo.comps_in_scan = 2
  /\ cinfo.comp_info[0].component_needed
  /\ Len(hist.idct) < cinfo.blocks_in_MCU
        * Cardinality({ i \in 1..Len(hist.decodes) : hist.decodes[i].ok })
  /\ \E j \in 1..Len(hist.idct) : hist.idct[j].ci = 0

(* The five estimated coefficients: z is the index into coef_bits, p the   *)
(* position in the block, w the weight.                                    *)
Estimated ==
  { [z |-> 1, p |-> Q01_POS, w |-> 36], [z |-> 2, p |-> Q10_POS, w |-> 36],
    [z |-> 3, p |-> Q20_POS, w |-> 9],  [z |-> 4, p |-> Q11_POS, w |-> 5],
    [z |-> 5, p |-> Q02_POS, w |-> 9] }

DCCombination(z, dc) ==
  CASE z = 1 -> dc.DC4 - dc.DC6
    [] z = 2 -> dc.DC2 - dc.DC8
    [] z = 3 -> dc.DC2 + dc.DC8 - 2 * dc.DC5
    [] z = 4 -> dc.DC1 - dc.DC3 - dc.DC7 + dc.DC9
    [] z = 5 -> dc.DC4 + dc.DC6 - 2 * dc.DC5

Abs(x) == IF x >= 0 THEN x ELSE -x

\* e is a block transformed by decompress_smooth_data, c one of Estimated
Written(e, c) == e.stored[c.p] = 0 /\ e.bits[c.z] # 0
EstNum(e, c) ==
  c.w * cinfo.comp_info[e.ci].quant_table[0] * DCCombination(c.z, e.nbr.dc)
EstMagnitude(e, c) ==
  (cinfo.comp_info[e.ci].quant_table[c.p] * 128 + Abs(EstNum(e, c)))
    \div (cinfo.comp_info[e.ci].quant_table[c.p] * 256)

(* C25: every estimate decompress_smooth_data writes comes from            *)
(* num = w * Q00 * d with the weights 36, 36, 9, 5, 9 and the DC           *)
(* combinations of the five positions; its magnitude is                    *)
(* (Q*128 + |num|) div (Q*256), after the clamp of a positive coef_bits    *)
(* entry, and its sign is the sign of num.                                 *)
C25_EstimateArithmetic ==
  hist.call = "decompress_smooth_data" =>
    \A j \in 1..Len(hist.idct) : \A c \in Estimated :
       \A e \in {hist.idct[j]} :
          Written(e, c) =>
            \A mag \in {EstMagnitude(e, c)} :
               /\ Abs(e.blk[c.p]) =
                     IF e.bits[c.z] > 0 /\ mag >= 2 ^ e.bits[c.z]
                     THEN 2 ^ e.bits[c.z] - 1 ELSE mag
               /\ EstNum(e, c) >= 0 => e.blk[c.p] >= 0
               /\ EstNum(e, c) < 0 => e.blk[c.p] <= 0

\* a negative estimate of magnitude 2 or more, and one rounded up from a half
C25_Witness ==
  /\ hist.call = "decompress_smooth_data"
  /\ \E j \in 1..Len(hist.idct) : \E c \in Estimated :
        /\ Written(hist.idct[j], c)
        /\ hist.idct[j].blk[c.p] <= -2
        /\ hist.idct[j].blk[c.p] = -EstMagnitude(hist.idct[j], c)
  /\ \E j \in 1..Len(hist.idct) : \E c \in Estimated :
        /\ Written(hist.idct[j], c)
        /\ Abs(EstNum(hist.idct[j], c)) % (cinfo.comp_info[hist.idct[j].ci].quant_table[c.p] * 256)
             >= cinfo.comp_info[hist.idct[j].ci].quant_table[c.p] * 128
        /\ hist.idct[j].bits[c.z] < 0

(* C26 as stated: every estimate written has magnitude at most             *)
(* 2^coef_bits - 1 for the latched coef_bits entry of its position, for    *)
(* every entry an estimate is written for, the entry -1 of a coefficient   *)
(* not sent yet included (the bound is then below 0); both sides doubled.  *)
C26_AsStated ==
  hist.call = "decompress_smooth_data" =>
    \A j \in 1..Len(hist.idct) : \A c \in Estimated :
       Written(hist.idct[j], c) =>
         2 * Abs(hist.idct[j].blk[c.p]) <= 2 ^ (hist.idct[j].bits[c.z] + 1) - 2

(* C26: every estimate written for a position whose latched coef_bits      *)
(* entry Al is positive has magnitude at most 2^Al - 1; an estimate for a  *)
(* negative entry is written as computed.                                  *)
C26_ClampedWhenPositive ==
  hist.call = "decompress_smooth_data" =>
    \A j \in 1..Len(hist.idct) : \A c \in Estimated :
       \A e \in {hist.idct[j]} :
          Written(e, c) =>
            /\ e.bits[c.z] > 0 => Abs(e.blk[c.p]) <= 2 ^ e.bits[c.z] - 1
            /\ e.bits[c.z] < 0 => Abs(e.blk[c.p]) = EstMagnitude(e, c)

\* an estimate of computed magnitude 2 or more cut down to 1, and an
\* estimate for a coefficient not sent yet left at 2 or more
C26_Witness ==
  /\ hist.call = "decompress_smooth_data"
  /\ \E j \in 1..Len(hist.idct) : \E c \in Estimated :
        /\ Written(hist.idct[j], c)
        /\ hist.idct[j].bits[c.z] = 1
        /\ EstMagnitude(hist.idct[j], c) >= 2
        /\ Abs(hist.idct[j].blk[c.p]) = 1
  /\ \E j \in 1..Len(hist.idct) : \E c \in Estimated :
        /\ Written(hist.idct[j], c)
        /\ hist.idct[j].bits[c.z] = -1
        /\ Abs(hist.idct[j].blk[c.p]) >= 2

(* C27: the nine DC values a block is smoothed with are those of its 3x3  *)
(* neighbourhood in the store, a row or column index outside               *)
(* 0..height_in_blocks-1 or 0..width_in_blocks-1 replaced by the nearest   *)
(* one inside; the rows and the column read lie inside the component.      *)
Clamp(x, hi) == IF x < 0 THEN 0 ELSE IF x > hi THEN hi ELSE x

NeighbourDC(e, dr, dcol) ==
  whole_image[e.ci]
    [Clamp(e.row + dr, cinfo.comp_info[e.ci].height_in_blocks - 1)]
    [Clamp(e.col + dcol, cinfo.comp_info[e.ci].width_in_blocks - 1)][0]

C27_Neighbourhood ==
  hist.call = "decompress_smooth_data" =>
    \A j \in 1..Len(hist.idct) :
       \A e \in {hist.idct[j]} :
          /\ e.nbr.dc =
               [ DC1 |-> NeighbourDC(e, -1, -1), DC2 |-> NeighbourDC(e, -1, 0),
                 DC3 |-> NeighbourDC(e, -1, 1),  DC4 |-> NeighbourDC(e, 0, -1),
                 DC5 |-> NeighbourDC(e, 0, 0),   DC6 |-> NeighbourDC(e, 0, 1),
                 DC7 |-> NeighbourDC(e, 1, -1),  DC8 |-> NeighbourDC(e, 1, 0),
                 DC9 |-> NeighbourDC(e, 1, 1) ]
          /\ e.nbr.prev = Clamp(e.row - 1, cinfo.comp_info[e.ci].height_in_blocks - 1)
          /\ e.nbr.next = Clamp(e.row + 1, cinfo.comp_info[e.ci].height_in_blocks - 1)
          /\ e.nbr.right = Clamp(e.col + 1, cinfo.comp_info[e.ci].width_in_blocks - 1)
          /\ e.row < cinfo.comp_info[e.ci].height_in_blocks
          /\ e.col < cinfo.comp_info[e.ci].width_in_blocks

\* a call that smoothed a block of the last column with rows above and
\* below it and a column to its left, whose DC values differ by row and by
\* column
C27_Witness ==
  /\ hist.call = "decompress_smooth_data"
  /\ hist.ret \in Completed
  /\ \E j \in 1..Len(hist.idct) :
        /\ hist.idct[j].nbr.prev < hist.idct[j].row
        /\ hist.idct[j].row < hist.idct[j].nbr.next
        /\ hist.idct[j].col > 0
        /\ hist.idct[j].nbr.right = hist.idct[j].col
        /\ hist.idct[j].nbr.dc.DC1 # hist.idct[j].nbr.dc.DC2
        /\ hist.idct[j].nbr.dc.DC2 # hist.idct[j].nbr.dc.DC8

\* a block of the last block row of an image of several rows, smoothed with
\* its own row as the next row
C27_LastRow ==
  /\ hist.call = "decompress_smooth_data"
  /\ \E j \in 1..Len(hist.idct) :
        /\ hist.idct[j].nbr.prev < hist.idct[j].row
        /\ hist.idct[j].nbr.next = hist.idct[j].row
        /\ hist.idct[j].nbr.dc.DC5 # hist.idct[j].nbr.dc.DC2

\* entry coefi of component ci in a latch
Latched(latch, ci, coefi) == latch[ci * SAVED_COEFS + coefi]

(* C28: the latch changes in start_output_pass only; when                  *)
(* start_output_pass installs decompress_smooth_data the latch holds, for  *)
(* every component, the coef_bits[1..5] of that moment; and every block a  *)
(* decompress_smooth_data call smooths is smoothed with the latched        *)
(* entries, whatever coef_bits has become since.                           *)
C28_Step ==
  /\ hist'.call # "start_output_pass" => coef'.coef_bits_latch = coef.coef_bits_latch
  /\ ( hist'.call = "start_output_pass"
       /\ coef'.decompress_data = "decompress_smooth_data" )
     => \A ci \in 0..(cinfo.num_components - 1) : \A coefi \in 1..5 :
           Latched(coef'.coef_bits_latch, ci, coefi) = cinfo.coef_bits[ci][coefi]
  /\ hist'.call = "decompress_smooth_data"
     => \A j \in 1..Len(hist'.idct) : \A coefi \in 1..5 :
           hist'.idct[j].bits[coefi]
             = Latched(coef.coef_bits_latch, hist'.idct[j].ci, coefi)

C28_LatchedForThePass == [][C28_Step]_vars

\* a call that forced the input into a later scan, which changed coef_bits,
\* and wrote an estimate for a position whose coef_bits entry is now 0 or
\* differs from the latched one
C28_Witness ==
  /\ hist.call = "decompress_smooth_data"
  /\ hist.ret \in Completed
  /\ cinfo.input_scan_number > cinfo.output_scan_number
  /\ \E j \in 1..Len(hist.idct) : \E c \in Estimated :
        /\ Written(hist.idct[j], c)
        /\ cinfo.coef_bits[hist.idct[j].ci][c.z] # hist.idct[j].bits[c.z]

(* C29: the latch is unallocated until an entry point has run; it has been *)
(* allocated at most once; an allocation happens in a start_output_pass of *)
(* a progressive file with coef_bits; once allocated it stays allocated    *)
(* with the same size and is not allocated again; decompress_smooth_data   *)
(* is installed only while the latch is allocated.                         *)
C29_State ==
  /\ hist.call = "" => coef.coef_bits_latch = NoLatch
  /\ hist.latch_allocs \in {0, 1}
  /\ hist.latch_allocs = 0 <=> coef.coef_bits_latch = NoLatch
  /\ coef.decompress_data = "decompress_smooth_data" => coef.coef_bits_latch # NoLatch

C29_Step ==
  /\ C29_State
  /\ C29_State'
  /\ hist'.latch_allocs # hist.latch_allocs =>
        /\ hist'.call = "start_output_pass"
        /\ cinfo.progressive_mode
        /\ cinfo.coef_bits # NoBits
        /\ coef.coef_bits_latch = NoLatch
  /\ coef.coef_bits_latch # NoLatch =>
        /\ coef'.coef_bits_latch # NoLatch
        /\ DOMAIN coef'.coef_bits_latch = DOMAIN coef.coef_bits_latch
        /\ hist'.latch_allocs = hist.latch_allocs

C29_LatchAllocatedOnce == [][C29_Step]_vars

\* a start_output_pass after an earlier output pass delivered blocks: the
\* latch of the earlier pass is used again
C29_Witness ==
  /\ hist.call = "start_output_pass"
  /\ coef.decompress_data = "decompress_smooth_data"
  /\ hist.latch_allocs = 1
  /\ \E ci \in DOMAIN output_buf : output_buf[ci][0][0] # NoBlock

(* C30: in a single-pass decode every call of decompress_onepass starts    *)
(* and ends with input_iMCU_row = output_iMCU_row; a call that suspends    *)
(* changes neither, a call that completes a row-group adds one to both;    *)
(* start_output_pass leaves both at 0.                                     *)
C30_Step ==
  /\ hist'.call = "decompress_onepass" =>
        /\ cinfo.input_iMCU_row = cinfo.output_iMCU_row
        /\ cinfo'.input_iMCU_row = cinfo'.output_iMCU_row
        /\ hist'.ret \in Completed \cup {"JPEG_SUSPENDED"}
        /\ hist'.ret = "JPEG_SUSPENDED" =>
              /\ cinfo'.input_iMCU_row = cinfo.input_iMCU_row
              /\ cinfo'.output_iMCU_row = cinfo.output_iMCU_row
        /\ hist'.ret \in Completed =>
              /\ cinfo'.input_iMCU_row = cinfo.input_iMCU_row + 1
              /\ cinfo'.output_iMCU_row = cinfo.output_iMCU_row + 1
  /\ ( hist'.call = "start_output_pass" /\ ~coef.coef_arrays ) =>
        /\ cinfo'.input_iMCU_row = 0
        /\ cinfo'.output_iMCU_row = 0

C30_Lockstep == [][C30_Step]_vars

\* the second row-group completed by a call that resumed after a suspension
C30_Witness ==
  /\ hist.call = "decompress_onepass"
  /\ hist.ret = "JPEG_ROW_COMPLETED"
  /\ cinfo.input_iMCU_row = 2
  /\ cinfo.output_iMCU_row = 2
  /\ hist.decodes[1].col > 0

(* C31: the buffering strategy is fixed by jinit_d_coef_controller.  When  *)
(* it returns with a full buffer requested, consume_data and a multi-pass  *)
(* producer are installed and coef_arrays is non-null; without one,        *)
(* dummy_consume_data and decompress_onepass are installed and coef_arrays *)
(* is null.  No step changes this, and a call of the dummy consumer        *)
(* returns JPEG_SUSPENDED and changes nothing of the decoder's state.      *)
C31_Installed ==
  cinfo.msg_code = "" =>
    /\ decode.full =>
          /\ coef.consume_data = "consume_data"
          /\ coef.decompress_data \in {"decompress_data", "decompress_smooth_data"}
          /\ coef.coef_arrays
    /\ ~decode.full =>
          /\ coef.consume_data = "dummy_consume_data"
          /\ coef.decompress_data = "decompress_onepass"
          /\ ~coef.coef_arrays

C31_Step ==
  /\ C31_Installed
  /\ C31_Installed'
  /\ coef'.consume_data = coef.consume_data
  /\ coef'.coef_arrays = coef.coef_arrays
  /\ ( hist'.call = "consume_input" /\ cinfo.inputctl.in_scan
       /\ coef.consume_data = "dummy_consume_data" ) =>
        /\ hist'.ret = "JPEG_SUSPENDED"
        /\ hist'.consumed = <<"JPEG_SUSPENDED">>
        /\ UNCHANGED <<cinfo, coef, whole_image, output_buf>>

C31_StrategyFixed == [][C31_Step]_vars

\* the dummy consumer called in the middle of a row-group of a single-pass
\* decode
C31_Witness ==
  /\ hist.call = "consume_input"
  /\ hist.ret = "JPEG_SUSPENDED"
  /\ coef.consume_data = "dummy_consume_data"
  /\ coef.decompress_data = "decompress_onepass"
  /\ ~coef.coef_arrays
  /\ cinfo.inputctl.in_scan
  /\ coef.MCU_ctr > 0
  /\ cinfo.output_iMCU_row > 0

\* a multi-pass decode whose producer was replaced by the smoothing one
C31_MultiPassSmoothing ==
  /\ decode.full
  /\ coef.consume_data = "consume_data"
  /\ coef.decompress_data = "decompress_smooth_data"
  /\ hist.call = "decompress_smooth_data"

(* C32: progress.  When the data source runs dry finitely often, every     *)
(* scan the multi-pass consumer has started is completed, the completion   *)
(* being reported as JPEG_SCAN_COMPLETED, and every output pass that was   *)
(* started ends with the producer returning JPEG_SCAN_COMPLETED.  The      *)
(* forced-input loop of decompress_data and of decompress_smooth_data      *)
(* leaves every call: with enough input the producer completes a           *)
(* row-group, on the last row-group of a DC scan and after end-of-image    *)
(* too.                                                                    *)
ScanNumbers ==
  UNION { 1..Len(StreamOf(kind, n)) : kind \in Kinds, n \in 1..2 }

ScanOpen(k) ==
  /\ coef.coef_arrays
  /\ cinfo.inputctl.in_scan
  /\ cinfo.input_scan_number = k

ScanClosed(k) ==
  \/ cinfo.input_scan_number > k
  \/ cinfo.input_scan_number = k /\ ~cinfo.inputctl.in_scan

PassOpen ==
  /\ cinfo.msg_code = ""
  /\ cinfo.output_active
  /\ cinfo.output_iMCU_row < cinfo.total_iMCU_rows

PassDone ==
  /\ hist.call \in Producers \cup {"decompress_onepass"}
  /\ hist.ret = "JPEG_SCAN_COMPLETED"
  /\ cinfo.output_iMCU_row = cinfo.total_iMCU_rows

\* the producer called with enough input for the whole call
C32_CallReturnsRow ==
  CanOutput =>
    \A ref \in { RefCall(State) } :
       /\ ref.hist.ret \in Completed
       /\ ref.cinfo.output_iMCU_row = cinfo.output_iMCU_row + 1

\* a scan ends in a step that reports JPEG_SCAN_COMPLETED
C32_Step ==
  ( /\ cinfo.inputctl.in_scan
    /\ \/ ~cinfo'.inputctl.in_scan
       \/ cinfo'.input_scan_number # cinfo.input_scan_number )
  => \/ hist'.ret = "JPEG_SCAN_COMPLETED"
     \/ ScansCompleted(hist') > 0

C32_Progress ==
  /\ [](hist.ret # "NO_RETURN")
  /\ []C32_CallReturnsRow
  /\ [][C32_Step]_vars
  /\ \A k \in ScanNumbers : ScanOpen(k) ~> ScanClosed(k)
  /\ PassOpen ~> PassDone

\* the smoothing producer ends an output pass of the DC scan: on the last
\* row-group the input cannot get one row-group ahead, and the call forced
\* input until the next scan began
C32_Witness ==
  /\ hist.call = "decompress_smooth_data"
  /\ hist.ret = "JPEG_SCAN_COMPLETED"
  /\ cinfo.output_scan_number = 1
  /\ stream[1].Ss = 0
  /\ hist.consumed # <<>>
  /\ LastOf(hist.consumed) = "JPEG_REACHED_SOS"
  /\ cinfo.input_scan_number = 2
  /\ cinfo.output_iMCU_row = cinfo.total_iMCU_rows

\* decompress_data forced input to the end of the file and returned
C32_AfterEndOfImage ==
  /\ hist.call = "decompress_data"
  /\ hist.ret \in Completed
  /\ Len(hist.consumed) > 0
  /\ LastOf(hist.consumed) = "JPEG_REACHED_EOI"

(* C33: every virtual-array request of consume_data, decompress_data and   *)
(* decompress_smooth_data asks for rows inside the array's padded height   *)
(* (height_in_blocks rounded up to a multiple of v_samp_factor) and for at *)
(* most as many rows as jinit_d_coef_controller asked the window to hold:  *)
(* v_samp_factor rows, three times as many in progressive mode.            *)
PaddedHeight(compptr) ==
  jround_up(compptr.height_in_blocks, compptr.v_samp_factor)

WindowRows(compptr) ==
  IF cinfo.progressive_mode THEN 3 * compptr.v_samp_factor
  ELSE compptr.v_samp_factor

C33_AccessInsideArray ==
  \A j \in 1..Len(hist.access) :
     LET a == hist.access[j]
         compptr == cinfo.comp_info[a.ci]
     IN /\ hist.call \in {"consume_input", "finish_output"} \cup Producers
        /\ coef.coef_arrays
        /\ a.start_row >= 0
        /\ a.num_rows >= 1
        /\ a.start_row + a.num_rows <= PaddedHeight(compptr)
        /\ (a.start_row..(a.start_row + a.num_rows - 1)) \subseteq DOMAIN whole_image[a.ci]
        /\ a.num_rows <= WindowRows(compptr)

\* a smoothing call in the middle of the image asks for the whole window,
\* which ends at the last row of the array, and the consumer it forced asked
\* for the last row-group
C33_Witness ==
  /\ hist.call = "decompress_smooth_data"
  /\ \E j \in 1..Len(hist.access) :
        LET a == hist.access[j]
            compptr == cinfo.comp_info[a.ci]
        IN /\ ~a.writable
           /\ a.start_row = 0
           /\ a.num_rows = 3 * compptr.v_samp_factor
           /\ a.num_rows = PaddedHeight(compptr)
  /\ \E j \in 1..Len(hist.access) :
        LET a == hist.access[j]
            compptr == cinfo.comp_info[a.ci]
        IN /\ a.writable
           /\ a.start_row + a.num_rows = PaddedHeight(compptr)

\* the last row-group of a component whose height is not a multiple of
\* v_samp_factor: the request reaches into the padding rows
C33_PaddingRows ==
  /\ hist.call = "decompress_data"
  /\ \E j \in 1..Len(hist.access) :
        LET a == hist.access[j]
            compptr == cinfo.comp_info[a.ci]
        IN /\ a.start_row + a.num_rows = PaddedHeight(compptr)
           /\ PaddedHeight(compptr) > compptr.height_in_blocks

(* C34: the cursor ranges.  Between calls, while a scan is being read      *)
(* (from start_input_pass to the scan's JPEG_SCAN_COMPLETED),              *)
(* 0 <= MCU_vert_offset < MCU_rows_per_iMCU_row, 0 <= MCU_ctr <            *)
(* MCUs_per_row and input_iMCU_row < total_iMCU_rows.  MCU_ctr and         *)
(* MCU_vert_offset are non-zero only after a call that suspended: a call   *)
(* that decoded and returned otherwise leaves both 0, and a call that      *)
(* decoded nothing leaves them alone or starts a scan with both 0.         *)
(* output_iMCU_row never exceeds total_iMCU_rows when the producer is not  *)
(* called again after its JPEG_SCAN_COMPLETED.                             *)
C34_Range ==
  /\ cinfo.inputctl.in_scan =>
        /\ 0 <= coef.MCU_vert_offset
        /\ coef.MCU_vert_offset < coef.MCU_rows_per_iMCU_row
        /\ 0 <= coef.MCU_ctr
        /\ coef.MCU_ctr < cinfo.MCUs_per_row
        /\ 0 <= cinfo.input_iMCU_row
        /\ cinfo.input_iMCU_row < cinfo.total_iMCU_rows
  /\ 0 <= cinfo.output_iMCU_row
  /\ cinfo.output_iMCU_row <= cinfo.total_iMCU_rows

C34_Step ==
  /\ C34_Range
  /\ C34_Range'
  /\ ( cinfo'.inputctl.in_scan /\ hist'.decodes # <<>>
       /\ hist'.ret # "JPEG_SUSPENDED" ) =>
        /\ coef'.MCU_ctr = 0
        /\ coef'.MCU_vert_offset = 0
  /\ hist'.decodes = <<>> =>
        \/ /\ coef'.MCU_ctr = coef.MCU_ctr
           /\ coef'.MCU_vert_offset = coef.MCU_vert_offset
        \/ /\ coef'.MCU_ctr = 0
           /\ coef'.MCU_vert_offset = 0
           /\ cinfo'.input_scan_number = cinfo.input_scan_number + 1
  /\ hist'.call \in Producers \cup {"decompress_onepass"} =>
        ( hist'.ret = "JPEG_SCAN_COMPLETED"
          <=> /\ cinfo'.output_iMCU_row = cinfo.total_iMCU_rows
              /\ cinfo.output_iMCU_row = cinfo.total_iMCU_rows - 1 )

C34_CursorRange == [][C34_Step]_vars

\* a call suspended in the second MCU row of a row-group, at the second
\* MCU of that row
C34_Witness ==
  /\ cinfo.inputctl.in_scan
  /\ hist.ret = "JPEG_SUSPENDED"
  /\ coef.MCU_vert_offset = 1
  /\ coef.MCU_ctr = 1
  /\ coef.MCU_rows_per_iMCU_row = 2
  /\ cinfo.MCUs_per_row = 2

\* a scan completed by a call that resumed in the second MCU row: the
\* offset saved by the suspension is still there, start_input_pass of the
\* next scan resets it
C34_OffsetAfterScan ==
  /\ ~cinfo.inputctl.in_scan
  /\ hist.ret = "JPEG_SCAN_COMPLETED"
  /\ coef.MCU_vert_offset = 1

----------------------------------------------------------------------------
(* The smoothing arithmetic at its declared widths.  num and the Q values  *)
(* are INT32, taken as a signed 32-bit integer; the DC values are int      *)
(* copies of JCOEF (16-bit) coefficients; quantval is a UINT16; the        *)
(* estimate is stored as a JCOEF.  An INT32 value outside its range is     *)
(* signed overflow, undefined behaviour: the estimate can then be any      *)
(* value.  The decode states below hold one block with its eight           *)
(* neighbours, a table and a latch row.                                    *)

INT32_MAX == 2147483647
JCOEF_MAX == 32767
UINT16_MAX == 65535

QuantVals == {1, 255, UINT16_MAX}
DCVals == {-JCOEF_MAX - 1, 0, JCOEF_MAX}
LatchVals == {-1, 1}
\* values standing for the JCOEF range
AnyJCOEF == {-JCOEF_MAX - 1, -1, 0, 1, JCOEF_MAX}

\* num = w * Q00 * d and (Q<<7) + |num| are inside the INT32 range
num_in_range(w, Q00, d, Q) ==
  Abs(d) <= (INT32_MAX - Q * 128) \div (w * Q00)

\* workspace[k] = (JCOEF) pred
store_JCOEF(pred) ==
  ((pred + JCOEF_MAX + 1) % (2 * (JCOEF_MAX + 1))) - (JCOEF_MAX + 1)

\* one estimate: undefined is the value an overflowing computation leaves
estimate_int32(w, Q00, d, Q, Al, undefined) ==
  IF num_in_range(w, Q00, d, Q)
  THEN [ pred |-> Estimate(w * Q00 * d, Q, Al).pred, overflow |-> FALSE ]
  ELSE [ pred |-> undefined, overflow |-> TRUE ]

smooth_block_int32(workspace, dc, Q, coef_bits, undefined) ==
  LET est(c) == estimate_int32(c.w, Q[0], DCCombination(c.z, dc), Q[c.p],
                               coef_bits[c.z], undefined)
      do(c) == coef_bits[c.z] # 0 /\ workspace[c.p] = 0
      at(k) == CHOOSE c \in Estimated : c.p = k
  IN [ blk |-> [k \in DOMAIN workspace |->
                  IF k \in {c.p : c \in Estimated} /\ do(at(k))
                  THEN store_JCOEF(est(at(k)).pred) ELSE workspace[k]],
       pred |-> [z \in 1..5 |->
                  est(CHOOSE c \in Estimated : c.z = z).pred],
       overflow |-> \E c \in Estimated : do(c) /\ est(c).overflow ]

Neighbourhood ==
  [ DC1 |-> whole_image[0][0][0][0], DC2 |-> whole_image[0][0][1][0],
    DC3 |-> whole_image[0][0][2][0], DC4 |-> whole_image[0][1][0][0],
    DC5 |-> whole_image[0][1][1][0], DC6 |-> whole_image[0][1][2][0],
    DC7 |-> whole_image[0][2][0][0], DC8 |-> whole_image[0][2][1][0],
    DC9 |-> whole_image[0][2][2][0] ]

InitArithmetic ==
  \E Q00 \in QuantVals, Q \in QuantVals, Al \in LatchVals,
     d \in [1..7 -> DCVals] :
    LET dcs == << <<d[6], d[1], d[7]>>, <<d[2], d[3], d[4]>>,
                  <<d[7], d[5], d[6]>> >>
    IN /\ cinfo = [ quant_table |-> [k \in Pos |-> IF k = 0 THEN Q00 ELSE Q] ]
       /\ coef = [ coef_bits_latch |->
                     [ci \in {0} |->
                        [z \in 0..(SAVED_COEFS - 1) |-> IF z = 0 THEN 0 ELSE Al]],
                   decompress_data |-> "decompress_smooth_data" ]
       /\ whole_image = [ci \in {0} |-> [row \in 0..2 |-> [col \in 0..2 |->
                             [ ZeroBlock EXCEPT ![0] = dcs[row + 1][col + 1] ]]]]
       /\ output_buf = NoBlock
       /\ stream = <<>>
       /\ decode = [ full |-> TRUE, smoothing |-> TRUE ]
       /\ hist = [ call |-> "", overflow |-> FALSE, pred |-> <<>> ]
       /\ jni = NoJNI

\* the estimates of the middle block, as decompress_smooth_data computes
\* them before the inverse DCT
SmoothBlock ==
  /\ hist.call = ""
  /\ \E undefined \in AnyJCOEF :
       LET r == smooth_block_int32(whole_image[0][1][1], Neighbourhood,
                                   cinfo.quant_table, coef.coef_bits_latch[0],
                                   undefined)
       IN /\ output_buf' = r.blk
          /\ hist' = [ call |-> "decompress_smooth_data",
                       overflow |-> r.overflow, pred |-> r.pred ]
  /\ UNCHANGED <<cinfo, coef, whole_image, stream, decode, jni>>

NextArithmetic == SmoothBlock

SpecArithmetic == InitArithmetic /\ [][NextArithmetic]_vars

(* C35: for every quantizer value smoothing_ok admits (1..65535) and every *)
(* DC value of the 16-bit coefficient range, num = w * Q00 * d, Q<<7, Q<<8 *)
(* and Q*128 + |num| stay inside the signed 32-bit range, so that every    *)
(* estimate is the exact value of the formula.                             *)
C35_AsStated ==
  hist.call = "decompress_smooth_data" =>
    /\ ~hist.overflow
    /\ \A c \in Estimated :
          LET num == c.w * cinfo.quant_table[0] * DCCombination(c.z, Neighbourhood)
          IN /\ -INT32_MAX - 1 <= num
             /\ num <= INT32_MAX - cinfo.quant_table[c.p] * 128
             /\ hist.pred[c.z] =
                  Estimate(num, cinfo.quant_table[c.p],
                           coef.coef_bits_latch[0][c.z]).pred

\* Q00 = 65535 with DC4 = 32767 and DC6 = -32768: num = 36 * 65535 * 65535
\* is beyond the INT32 range
C35_Overflow ==
  /\ hist.call = "decompress_smooth_data"
  /\ hist.overflow
  /\ cinfo.quant_table[0] = UINT16_MAX
  /\ Neighbourhood.DC4 = JCOEF_MAX
  /\ Neighbourhood.DC6 = -JCOEF_MAX - 1

\* inside the INT32 range the estimates are those of the formula
C35_ExactInRange ==
  ( hist.call = "decompress_smooth_data" /\ ~hist.overflow ) =>
    \A c \in Estimated :
       LET num == c.w * cinfo.quant_table[0] * DCCombination(c.z, Neighbourhood)
       IN num_in_range(c.w, cinfo.quant_table[0],
                       DCCombination(c.z, Neighbourhood), cinfo.quant_table[c.p])
          => hist.pred[c.z] = Estimate(num, cinfo.quant_table[c.p],
                                       coef.coef_bits_latch[0][c.z]).pred

\* an estimate inside the INT32 range that does not fit the JCOEF it is
\* stored in
C35_Narrowed ==
  /\ hist.call = "decompress_smooth_data"
  /\ ~hist.overflow
  /\ hist.pred[1] > JCOEF_MAX
  /\ output_buf[Q01_POS] # hist.pred[1]

----------------------------------------------------------------------------
(* The JNI wrapper (src/trunk/turbojpeg-jni.c, lines 1..468).              *)
(*                                                                         *)
(* jni is the Java side: the handle field of the TJCompressor and of the   *)
(* TJDecompressor object, the header fields of the TJDecompressor, the     *)
(* native instances that exist, and a record of the last native call: its  *)
(* arguments, the arrays it pinned and released, the codec function it     *)
(* called, the exception it left pending and its return value.  An entry   *)
(* point is a function of jni, its arguments a and the outcomes o of the   *)
(* JNI and TurboJPEG functions it calls.                                   *)

NUMPFOPT == 7
_pixelsize == [pf \in 0..(NUMPFOPT - 1) |-> <<3, 3, 4, 4, 4, 4, 1>>[pf + 1]]
sizeof_jint == 4

\* turbojpeg.h
NUMSUBOPT == 4
TJ_GRAYSCALE == 3

PAD(v, p) == ((v + (p - 1)) \div p) * p

\* turbojpeg.c: -1 (as unsigned long, then cast to jsize) for an invalid
\* argument
TJBUFSIZE(width, height) ==
  IF width < 1 \/ height < 1 THEN -1
  ELSE PAD(width, 16) * PAD(height, 16) * 6 + 2048

\* turbojpeg.c, for the subsampling options without chroma subsampling
TJBUFSIZEYUV(width, height, subsamp) ==
  IF width < 1 \/ height < 1 \/ subsamp < 0 \/ subsamp >= NUMSUBOPT THEN -1
  ELSE PAD(width, 4) * height * (IF subsamp = TJ_GRAYSCALE THEN 1 ELSE 3)

Arrays == {"src", "dst"}
Objects == {"TJCompressor", "TJDecompressor"}

NoCall ==
  [ name |-> "", args |-> <<>>, exception |-> "",
    pins |-> [x \in Arrays |-> 0], releases |-> [x \in Arrays |-> 0],
    codec |-> "", retval |-> 0 ]

\* the two Java objects as their constructors leave them before init()
NewObjects ==
  [ handle |-> [obj \in Objects |-> 0],
    instances |-> {}, created |-> 0,
    jpegSubsamp |-> -1, jpegWidth |-> 0, jpegHeight |-> 0,
    call |-> NoCall ]

BeginNative(j, name, a) == [ j EXCEPT !.call = [ NoCall EXCEPT !.name = name, !.args = a ] ]

\* _throw(msg); the goto bailout is the caller's
_throw(j, msg, o) ==
  [ j EXCEPT !.call.exception = IF o.exccls THEN msg ELSE "NoClassDefFoundError" ]

\* gethandle() finding no class or no field
no_handle(j) == [ j EXCEPT !.call.exception = "NoSuchFieldError" ]

GetPrimitiveArrayCritical(j, array) == [ j EXCEPT !.call.pins[array] = @ + 1 ]

ReleasePrimitiveArrayCritical(j, array) == [ j EXCEPT !.call.releases[array] = @ + 1 ]

\* the code at the label bailout of the entry points that pin two arrays
bailout(j, srcbuf, dstbuf) ==
  LET j1 == IF dstbuf THEN ReleasePrimitiveArrayCritical(j, "dst") ELSE j
  IN IF srcbuf THEN ReleasePrimitiveArrayCritical(j1, "src") ELSE j1

\* the two pins, the codec call, its failure branch and the code at
\* bailout: the same text in the seven entry points that move pixels
pin_call_release(j, codec, o) ==
  IF ~o.pin_src THEN bailout(j, FALSE, FALSE)
  ELSE LET j1 == GetPrimitiveArrayCritical(j, "src")
       IN IF ~o.pin_dst THEN bailout(j1, TRUE, FALSE)
          ELSE LET j2 == [ GetPrimitiveArrayCritical(j1, "dst")
                           EXCEPT !.call.codec = codec ]
               IN IF ~o.codec_ok
                  THEN bailout(
                         _throw(ReleasePrimitiveArrayCritical(
                                  ReleasePrimitiveArrayCritical(j2, "dst"),
                                  "src"),
                                "tjGetErrorStr()", o),
                         TRUE, TRUE)
                  ELSE bailout(j2, TRUE, TRUE)

\* the size tjCompress stores through &size when it succeeds
size_written(j, o) ==
  IF j.call.codec = "tjCompress" /\ j.call.exception = ""
  THEN [ j EXCEPT !.call.retval = o.size ] ELSE j

\* mutant of invalid_argument: a width below 1 is let through
invalid_argument_no_width(a) ==
  a.pf < 0 \/ a.pf >= NUMPFOPT \/ a.height < 1 \/ a.pitch < 0

\* the argument test of compress() and encodeYUV()
invalid_argument(a) ==
  a.pf < 0 \/ a.pf >= NUMPFOPT \/ a.width < 1 \/ a.height < 1 \/ a.pitch < 0

\* the pixel size test of the entry points that take an int array
not_32_bit(pf) == _pixelsize[pf] # sizeof_jint

\* arraysize of the byte-array entry points
arraysize_bytes(a) ==
  IF a.pitch = 0 THEN a.width * _pixelsize[a.pf] * a.height
  ELSE a.pitch * a.height

\* arraysize of the int-array entry points
arraysize_ints(a) ==
  IF a.pitch = 0 THEN a.width * a.height ELSE a.pitch * a.height

\* TJCompressor.compress(byte[], ...)
TJCompressor_compress_bytes(j, a, o) ==
  IF ~o.lookup THEN no_handle(j)
  ELSE IF invalid_argument(a)
  THEN _throw(j, "Invalid argument in compress()", o)
  ELSE IF a.srclen < arraysize_bytes(a)
  THEN _throw(j, "Source buffer is not large enough", o)
  ELSE IF a.dstlen < TJBUFSIZE(a.width, a.height)
  THEN _throw(j, "Destination buffer is not large enough", o)
  ELSE size_written(pin_call_release(j, "tjCompress", o), o)

\* TJCompressor.compress(int[], ...)
TJCompressor_compress_ints(j, a, o) ==
  IF ~o.lookup THEN no_handle(j)
  ELSE IF invalid_argument(a)
  THEN _throw(j, "Invalid argument in compress()", o)
  ELSE IF not_32_bit(a.pf)
  THEN _throw(j, "Pixel format must be 32-bit when compressing from an integer buffer.", o)
  ELSE IF a.srclen < arraysize_ints(a)
  THEN _throw(j, "Source buffer is not large enough", o)
  ELSE IF a.dstlen < TJBUFSIZE(a.width, a.height)
  THEN _throw(j, "Destination buffer is not large enough", o)
  ELSE size_written(pin_call_release(j, "tjCompress", o), o)

\* TJCompressor.encodeYUV(byte[], ...)
TJCompressor_encodeYUV_bytes(j, a, o) ==
  IF ~o.lookup THEN no_handle(j)
  ELSE IF invalid_argument(a)
  THEN _throw(j, "Invalid argument in encodeYUV()", o)
  ELSE IF a.srclen < arraysize_bytes(a)
  THEN _throw(j, "Source buffer is not large enough", o)
  ELSE IF a.dstlen < TJBUFSIZEYUV(a.width, a.height, a.subsamp)
  THEN _throw(j, "Destination buffer is not large enough", o)
  ELSE pin_call_release(j, "tjEncodeYUV", o)

\* TJCompressor.encodeYUV(int[], ...)
TJCompressor_encodeYUV_ints(j, a, o) ==
  IF ~o.lookup THEN no_handle(j)
  ELSE IF invalid_argument(a)
  THEN _throw(j, "Invalid argument in compress()", o)
  ELSE IF not_32_bit(a.pf)
  THEN _throw(j, "Pixel format must be 32-bit when encoding from an integer buffer.", o)
  ELSE IF a.srclen < arraysize_ints(a)
  THEN _throw(j, "Source buffer is not large enough", o)
  ELSE IF a.dstlen < TJBUFSIZEYUV(a.width, a.height, a.subsamp)
  THEN _throw(j, "Destination buffer is not large enough", o)
  ELSE pin_call_release(j, "tjEncodeYUV", o)

\* TJDecompressor.decompressHeader(): the header fields are set when
\* tjDecompressHeader2 succeeds; o.header is what it read
TJDecompressor_decompressHeader(j, a, o) ==
  IF ~o.lookup THEN no_handle(j)
  ELSE IF a.srclen < a.size
  THEN _throw(j, "Source buffer is not large enough", o)
  ELSE IF ~o.pin_src THEN j
  ELSE LET j1 == [ GetPrimitiveArrayCritical(j, "src")
                   EXCEPT !.call.codec = "tjDecompressHeader2" ]
       IN IF ~o.codec_ok
          THEN _throw(ReleasePrimitiveArrayCritical(j1, "src"),
                      "tjGetErrorStr()", o)
          ELSE [ ReleasePrimitiveArrayCritical(j1, "src")
                 EXCEPT !.jpegSubsamp = o.header.subsamp,
                        !.jpegWidth = o.header.width,
                        !.jpegHeight = o.header.height ]

\* TJDecompressor.decompress(byte[], int, byte[], ...)
TJDecompressor_decompress_bytes(j, a, o) ==
  IF ~o.lookup THEN no_handle(j)
  ELSE IF a.pf < 0 \/ a.pf >= NUMPFOPT
  THEN _throw(j, "Invalid argument in decompress()", o)
  ELSE IF a.srclen < a.size
  THEN _throw(j, "Source buffer is not large enough", o)
  ELSE IF a.dstlen < arraysize_bytes(a)
  THEN _throw(j, "Destination buffer is not large enough", o)
  ELSE pin_call_release(j, "tjDecompress", o)

\* TJDecompressor.decompress(byte[], int, int[], ...)
TJDecompressor_decompress_ints(j, a, o) ==
  IF ~o.lookup THEN no_handle(j)
  ELSE IF a.pf < 0 \/ a.pf >= NUMPFOPT
  THEN _throw(j, "Invalid argument in decompress()", o)
  ELSE IF not_32_bit(a.pf)
  THEN _throw(j, "Pixel format must be 32-bit when decompressing to an integer buffer.", o)
  ELSE IF a.srclen < a.size
  THEN _throw(j, "Source buffer is not large enough", o)
  ELSE IF a.dstlen < arraysize_ints(a)
  THEN _throw(j, "Destination buffer is not large enough", o)
  ELSE pin_call_release(j, "tjDecompress", o)

\* TJDecompressor.decompressToYUV(): the size is computed from the header
\* fields of the object
TJDecompressor_decompressToYUV(j, a, o) ==
  IF ~o.lookup THEN no_handle(j)
  ELSE IF a.srclen < a.size
  THEN _throw(j, "Source buffer is not large enough", o)
  ELSE IF a.dstlen < TJBUFSIZEYUV(j.jpegWidth, j.jpegHeight, j.jpegSubsamp)
  THEN _throw(j, "Destination buffer is not large enough", o)
  ELSE pin_call_release(j, "tjDecompressToYUV", o)

\* TJ.bufSizeYUV()
TJ_bufSizeYUV(j, a, o) ==
  LET retval == TJBUFSIZEYUV(a.width, a.height, a.subsamp)
      j1 == [ j EXCEPT !.call.retval = retval ]
  IN IF retval = -1 THEN _throw(j1, "tjGetErrorStr()", o) ELSE j1

\* TJCompressor.init() and TJDecompressor.init(): tjInitCompress() or
\* tjInitDecompress() makes an instance (o.codec_ok) or returns NULL
TJ_init(j, obj, tjInit, o) ==
  IF ~o.codec_ok
  THEN _throw([ j EXCEPT !.call.codec = tjInit ], "tjGetErrorStr()", o)
  ELSE LET handle == j.created + 1
           j1 == [ j EXCEPT !.created = handle,
                            !.instances = @ \cup {handle},
                            !.call.codec = tjInit,
                            !.call.retval = handle ]
       IN IF ~o.lookup THEN no_handle(j1)
          ELSE [ j1 EXCEPT !.handle[obj] = handle ]

TJCompressor_init(j, o) == TJ_init(j, "TJCompressor", "tjInitCompress", o)

TJDecompressor_init(j, o) == TJ_init(j, "TJDecompressor", "tjInitDecompress", o)

\* tjDestroy(handle): -1 for a handle that is no instance (0 included)
\* and when the library fails, which leaves the instance in place
tjDestroy(j, handle, o) ==
  IF handle \in j.instances /\ o.codec_ok
  THEN [ j EXCEPT !.instances = @ \ {handle}, !.call.codec = "tjDestroy",
                  !.call.retval = 0 ]
  ELSE [ j EXCEPT !.call.codec = "tjDestroy", !.call.retval = -1 ]

\* mutant of TJCompressor_destroy: the field keeps the handle
TJCompressor_destroy_keep(j, obj, o) ==
  IF ~o.lookup THEN no_handle(j)
  ELSE LET j1 == tjDestroy(j, j.handle[obj], o)
       IN IF j1.call.retval = -1 THEN _throw(j1, "tjGetErrorStr()", o)
          ELSE j1

\* TJCompressor.destroy(), on the object it is handed
TJCompressor_destroy(j, obj, o) ==
  IF ~o.lookup THEN no_handle(j)
  ELSE LET j1 == tjDestroy(j, j.handle[obj], o)
       IN IF j1.call.retval = -1 THEN _throw(j1, "tjGetErrorStr()", o)
          ELSE [ j1 EXCEPT !.handle[obj] = 0 ]

\* TJDecompressor.destroy()
TJDecompressor_destroy(j, o) == TJCompressor_destroy(j, "TJDecompressor", o)

(* Bounds of the JNI model *)
MaxInstances == 3     \* native instances made in one run
PixelFormats == {-1, 0, 2, NUMPFOPT}
Widths == {0, 2}
Heights == {0, 2}
Pitches == {-1, 0, 16}
Subsamps == {-1, 0, TJ_GRAYSCALE}
PixelLens == {0, 16, 32}        \* lengths of the pixel arrays
JpegLens == {0, 8, 3584}        \* lengths of the JPEG arrays
YUVLens == {0, 8, 24}           \* lengths of the YUV arrays
JpegSizes == {8}                \* the size argument of the decompressor
CompressedSizes == {5}          \* what tjCompress stores through &size
Headers ==
  { [ subsamp |-> 0, width |-> 2, height |-> 2 ],
    [ subsamp |-> TJ_GRAYSCALE, width |-> 2, height |-> 2 ] }

PixelArgs ==
  [ pf : PixelFormats, width : Widths, height : Heights, pitch : Pitches,
    srclen : PixelLens, dstlen : JpegLens ]
YUVArgs ==
  [ pf : PixelFormats, width : Widths, height : Heights, pitch : Pitches,
    srclen : PixelLens, dstlen : YUVLens, subsamp : Subsamps ]
DecompressArgs ==
  [ pf : PixelFormats, width : Widths, height : Heights, pitch : Pitches,
    size : JpegSizes, srclen : JpegLens, dstlen : PixelLens ]
ToYUVArgs == [ size : JpegSizes, srclen : JpegLens, dstlen : YUVLens ]
HeaderArgs == [ size : JpegSizes, srclen : JpegLens ]
BufSizeArgs == [ width : Widths, height : Heights, subsamp : Subsamps ]

TransferOutcomes ==
  [ lookup : BOOLEAN, exccls : BOOLEAN, pin_src : BOOLEAN, pin_dst : BOOLEAN,
    codec_ok : BOOLEAN, size : CompressedSizes ]
HeaderOutcomes ==
  [ lookup : BOOLEAN, exccls : BOOLEAN, pin_src : BOOLEAN,
    codec_ok : BOOLEAN, header : Headers ]
HandleOutcomes == [ lookup : BOOLEAN, exccls : BOOLEAN, codec_ok : BOOLEAN ]

InitJNI ==
  /\ jni = NewObjects
  /\ cinfo = <<>>
  /\ coef = <<>>
  /\ whole_image = <<>>
  /\ output_buf = <<>>
  /\ stream = <<>>
  /\ decode = <<>>
  /\ hist = [ call |-> "" ]

Native(j) ==
  /\ jni' = j
  /\ UNCHANGED <<cinfo, coef, whole_image, output_buf, stream, decode, hist>>

\* a run of the transfer model is at most one decompressHeader() followed
\* by one other call: no other entry point writes a field of the object
FirstCall == jni.call.name \in {"", "decompressHeader"}

CompressBytes ==
  /\ FirstCall
  /\ \E a \in PixelArgs, o \in TransferOutcomes :
       Native(TJCompressor_compress_bytes(
                BeginNative(jni, "compress_bytes", a), a, o))

CompressInts ==
  /\ FirstCall
  /\ \E a \in PixelArgs, o \in TransferOutcomes :
       Native(TJCompressor_compress_ints(
                BeginNative(jni, "compress_ints", a), a, o))

EncodeYUVBytes ==
  /\ FirstCall
  /\ \E a \in YUVArgs, o \in TransferOutcomes :
       Native(TJCompressor_encodeYUV_bytes(
                BeginNative(jni, "encodeYUV_bytes", a), a, o))

EncodeYUVInts ==
  /\ FirstCall
  /\ \E a \in YUVArgs, o \in TransferOutcomes :
       Native(TJCompressor_encodeYUV_ints(
                BeginNative(jni, "encodeYUV_ints", a), a, o))

DecompressHeader ==
  /\ jni.call.name = ""
  /\ \E a \in HeaderArgs, o \in HeaderOutcomes :
       Native(TJDecompressor_decompressHeader(
                BeginNative(jni, "decompressHeader", a), a, o))

DecompressBytes ==
  /\ FirstCall
  /\ \E a \in DecompressArgs, o \in TransferOutcomes :
       Native(TJDecompressor_decompress_bytes(
                BeginNative(jni, "decompress_bytes", a), a, o))

DecompressInts ==
  /\ FirstCall
  /\ \E a \in DecompressArgs, o \in TransferOutcomes :
       Native(TJDecompressor_decompress_ints(
                BeginNative(jni, "decompress_ints", a), a, o))

DecompressToYUV ==
  /\ FirstCall
  /\ \E a \in ToYUVArgs, o \in TransferOutcomes :
       Native(TJDecompressor_decompressToYUV(
                BeginNative(jni, "decompressToYUV", a), a, o))

BufSizeYUV ==
  /\ FirstCall
  /\ \E a \in BufSizeArgs, o \in HandleOutcomes :
       Native(TJ_bufSizeYUV(BeginNative(jni, "bufSizeYUV", a), a, o))

NextTransfer ==
  \/ CompressBytes \/ CompressInts \/ EncodeYUVBytes \/ EncodeYUVInts
  \/ DecompressHeader \/ DecompressBytes \/ DecompressInts
  \/ DecompressToYUV \/ BufSizeYUV

SpecTransfer == InitJNI /\ [][NextTransfer]_vars

InitCompressor ==
  \E o \in HandleOutcomes :
    /\ o.codec_ok => jni.created < MaxInstances
    /\ Native(TJCompressor_init(BeginNative(jni, "TJCompressor_init", <<>>), o))

DestroyCompressor ==
  \E o \in HandleOutcomes :
    /\ jni' = TJCompressor_destroy(
                BeginNative(jni, "TJCompressor_destroy", <<>>),
                "TJCompressor", o)
    /\ UNCHANGED <<cinfo, coef, whole_image, output_buf, stream, decode, hist>>

InitDecompressor ==
  \E o \in HandleOutcomes :
    /\ o.codec_ok => jni.created < MaxInstances
    /\ Native(TJDecompressor_init(
                BeginNative(jni, "TJDecompressor_init", <<>>), o))

DestroyDecompressor ==
  \E o \in HandleOutcomes :
    /\ jni' = TJDecompressor_destroy(
                BeginNative(jni, "TJDecompressor_destroy", <<>>), o)
    /\ UNCHANGED <<cinfo, coef, whole_image, output_buf, stream, decode, hist>>

NextHandle ==
  InitCompressor \/ DestroyCompressor \/ InitDecompressor \/ DestroyDecompressor

SpecHandle == InitJNI /\ [][NextHandle]_vars

----------------------------------------------------------------------------
(* Properties of the JNI wrapper *)

PixelMovers ==
  { "compress_bytes", "compress_ints", "encodeYUV_bytes", "encodeYUV_ints",
    "decompress_bytes", "decompress_ints", "decompressToYUV" }

\* C36: in compress, encodeYUV, decompress and decompressToYUV every array
\* pinned with GetPrimitiveArrayCritical is released exactly once on every
\* path (second pin failed, codec returned -1, success), and no array is
\* released that was never pinned: when such a call has returned, each
\* array has been released as many times as it was pinned.
C36_ReleasedOnce ==
  jni.call.name \in PixelMovers =>
    \A x \in Arrays : jni.call.releases[x] = jni.call.pins[x]

\* the codec returned -1: both arrays were pinned once and released twice
C36_DoubleRelease ==
  /\ jni.call.name \in PixelMovers
  /\ jni.call.codec # ""
  /\ jni.call.exception # ""
  /\ \A x \in Arrays : jni.call.pins[x] = 1 /\ jni.call.releases[x] = 2

\* on the paths where the codec did not fail the releases match the pins
C36_OtherPaths ==
  ( /\ jni.call.name \in PixelMovers
    /\ ~(jni.call.codec # "" /\ jni.call.exception # "") ) =>
    \A x \in Arrays : jni.call.releases[x] = jni.call.pins[x]

\* the second pin failed: the source array was pinned and released once,
\* the destination array neither
C36_SecondPinFailed ==
  /\ jni.call.name = "compress_bytes"
  /\ jni.call.pins = [x \in Arrays |-> IF x = "src" THEN 1 ELSE 0]
  /\ jni.call.releases = jni.call.pins

\* the arguments of the last call, read as the interface describes them
TakesDimensions ==
  jni.call.name \in { "compress_bytes", "compress_ints",
                      "encodeYUV_bytes", "encodeYUV_ints" }
TakesInts ==
  jni.call.name \in { "compress_ints", "encodeYUV_ints", "decompress_ints" }
BadDimensions ==
  LET a == jni.call.args
  IN a.pf \notin 0..(NUMPFOPT - 1) \/ a.width < 1 \/ a.height < 1 \/ a.pitch < 0
BadIntFormat ==
  LET a == jni.call.args
  IN a.pf \in {0, 1, 6}

\* the number of array elements the pixels of the last call take
PixelsNeeded ==
  LET a == jni.call.args
      per == IF TakesInts THEN 1 ELSE <<3, 3, 4, 4, 4, 4, 1>>[a.pf + 1]
  IN IF a.pitch = 0 THEN a.width * per * a.height ELSE a.pitch * a.height

\* the last call was handed arguments that pass the tests on the pixel
\* format and the dimensions, and an array shorter than its required size
ShortArray ==
  LET a == jni.call.args
  IN /\ jni.call.name \in PixelMovers \ {"decompressToYUV"}
     /\ a.pf \in 0..(NUMPFOPT - 1)
     /\ TakesDimensions => ~BadDimensions
     /\ TakesInts => ~BadIntFormat
     /\ IF TakesDimensions
        THEN \/ a.srclen < PixelsNeeded
             \/ a.dstlen < ( IF jni.call.name \in {"compress_bytes", "compress_ints"}
                             THEN TJBUFSIZE(a.width, a.height)
                             ELSE TJBUFSIZEYUV(a.width, a.height, a.subsamp) )
        ELSE a.srclen < a.size \/ a.dstlen < PixelsNeeded

C37_Rejected ==
  \/ TakesDimensions /\ BadDimensions
  \/ TakesInts /\ jni.call.args.pf \in 0..(NUMPFOPT - 1) /\ BadIntFormat
  \/ ShortArray

\* C37: compress and encodeYUV reject a pixel format outside [0, NUMPFOPT),
\* width < 1, height < 1 or pitch < 0, the int-array variants (decompress
\* to an int array included) reject a pixel format whose pixel size is not
\* 4, and arrays shorter than the required size are rejected, by an
\* exception raised before any array is pinned and before the codec is
\* called; the compress variants then return 0.
C37_RejectedBeforePin ==
  C37_Rejected =>
    /\ jni.call.exception # ""
    /\ \A x \in Arrays : jni.call.pins[x] = 0 /\ jni.call.releases[x] = 0
    /\ jni.call.codec = ""
    /\ jni.call.name \in {"compress_bytes", "compress_ints"} =>
         jni.call.retval = 0

\* compress from an int array with a 3-byte pixel format and otherwise
\* valid arguments
C37_Witness ==
  /\ jni.call.name = "compress_ints"
  /\ jni.call.args.pf = 0
  /\ ~BadDimensions
  /\ jni.call.args.srclen = 32 /\ jni.call.args.dstlen = 3584
  /\ jni.call.exception =
       "Pixel format must be 32-bit when compressing from an integer buffer."
  /\ jni.call.retval = 0

\* encodeYUV with a source array that is too short
C37_ShortSource ==
  /\ jni.call.name = "encodeYUV_bytes"
  /\ ShortArray
  /\ jni.call.args.srclen = 0
  /\ jni.call.exception = "Source buffer is not large enough"

\* the YUV buffer size the last call computes
YUVSize ==
  IF jni.call.name = "decompressToYUV"
  THEN TJBUFSIZEYUV(jni.jpegWidth, jni.jpegHeight, jni.jpegSubsamp)
  ELSE TJBUFSIZEYUV(jni.call.args.width, jni.call.args.height,
                    jni.call.args.subsamp)

YUVMovers == {"encodeYUV_bytes", "encodeYUV_ints", "decompressToYUV"}

\* C38: encodeYUV and decompressToYUV call the codec only after checking
\* that the destination array is at least as long as the YUV buffer size
\* for the width, height and subsampling in use; when the size computation
\* reports failure (-1) the check cannot be passed and the codec is not
\* called.
C38_CodecOnlyAfterSizeCheck ==
  ( jni.call.name \in YUVMovers /\ jni.call.codec # "" ) =>
    /\ YUVSize # -1
    /\ jni.call.args.dstlen >= YUVSize

\* decompressToYUV on an object whose header fields were never set, with
\* an empty destination array: the codec is called
C38_CodecAfterFailedSize ==
  /\ jni.call.name = "decompressToYUV"
  /\ jni.jpegSubsamp = -1 /\ jni.jpegWidth = 0 /\ jni.jpegHeight = 0
  /\ YUVSize = -1
  /\ jni.call.args.dstlen = 0
  /\ jni.call.codec = "tjDecompressToYUV"

\* when the size was computed, the codec is called with an array of at
\* least that size only
C38_CheckedWhenComputed ==
  ( jni.call.name \in YUVMovers /\ jni.call.codec # "" /\ YUVSize # -1 ) =>
    jni.call.args.dstlen >= YUVSize

\* the object a call of the handle model acts on
ObjectOf(name) ==
  IF name \in {"TJCompressor_init", "TJCompressor_destroy"}
  THEN "TJCompressor" ELSE "TJDecompressor"

C39_FieldLive ==
  \A obj \in Objects :
    jni.handle[obj] = 0 \/ jni.handle[obj] \in jni.instances

C39_Step ==
  LET c == jni'.call
      obj == ObjectOf(c.name)
  IN /\ \A other \in Objects \ {obj} : jni'.handle[other] = jni.handle[other]
     /\ c.name \in {"TJCompressor_init", "TJDecompressor_init"} =>
          IF c.retval = 0
          THEN c.exception # "" /\ jni'.handle = jni.handle
          ELSE /\ c.retval \in jni'.instances \ jni.instances
               /\ jni'.handle[obj] \in {c.retval, jni.handle[obj]}
     /\ c.name \in {"TJCompressor_destroy", "TJDecompressor_destroy"} =>
          /\ (c.codec = "tjDestroy" /\ c.retval = 0) =>
               jni'.handle[obj] = 0 /\ c.exception = ""
          /\ (c.codec = "tjDestroy" /\ c.retval = -1) =>
               jni'.handle = jni.handle /\ c.exception # ""
          /\ jni'.handle[obj] # jni.handle[obj] =>
               c.codec = "tjDestroy" /\ c.retval = 0

\* C39: init stores a handle in the handle field only when the native
\* instance was created (otherwise it throws and leaves the field
\* unchanged); destroy sets the field to 0 only when tjDestroy succeeded
\* and leaves it unchanged, throwing, when tjDestroy failed; after any
\* sequence of init and destroy calls the field is 0 or a handle that has
\* not been destroyed.
C39_HandleLifecycle == []C39_FieldLive /\ [][C39_Step]_vars

\* the decompressor was destroyed after both objects were initialised:
\* its field is 0 again, the compressor's still holds its instance
C39_Witness ==
  /\ jni.call.name = "TJDecompressor_destroy"
  /\ jni.call.codec = "tjDestroy" /\ jni.call.retval = 0
  /\ jni.handle["TJDecompressor"] = 0
  /\ jni.handle["TJCompressor"] \in jni.instances
  /\ jni.created >= 2

\* destroy on an object that was never initialised: tjDestroy(0) fails
C39_DestroyBeforeInit ==
  /\ jni.call.name = "TJCompressor_destroy"
  /\ jni.created = 0
  /\ jni.call.retval = -1 /\ jni.call.exception # ""
  /\ jni.handle["TJCompressor"] = 0

====
